---------------------------- MODULE Spec2Model ----------------------------
(***************************************************************************)
(* AbsPresTree: absence/presence matrices of BiG-SCAPE cluster families.   *)
(*                                                                         *)
(* Strings are sequences of one-character strings, so that prefixes,       *)
(* suffixes, concatenation, splitting and sanitising are computed and not  *)
(* assumed.  Raw distances are integers (hundredths); a mean is kept as    *)
(* the exact fraction [num, den].  Cutoffs are integers (thousandths).     *)
(***************************************************************************)
EXTENDS Integers, Sequences, FiniteSets, TLC

VARIABLES
    pc,     \* position of the call or of the run
    args,   \* arguments of the function under call / inputs of the run
    ret     \* what the call returned or raised / locals and output of the run

vars == <<pc, args, ret>>

None == [none |-> TRUE]

-----------------------------------------------------------------------------
(* Bounds of the model *)

MaxDirs == 2
MaxEntries == 2

-----------------------------------------------------------------------------
(* Strings *)

StartsWith(s, p) == Len(s) >= Len(p) /\ SubSeq(s, 1, Len(p)) = p

EndsWith(s, p) == Len(s) >= Len(p) /\ SubSeq(s, Len(s) - Len(p) + 1, Len(s)) = p

Range(s) == {s[i] : i \in 1..Len(s)}

\* all sequences over S of length at most n
SeqsUpTo(S, n) == UNION {[1..k -> S] : k \in 0..n}

IsInjective(s) == \A i, j \in 1..Len(s) : s[i] = s[j] => i = j

DigitChar(d) == <<"0", "1", "2", "3", "4", "5", "6", "7", "8", "9">>[d + 1]

\* "{:.2f}".format(x) for 0 <= x < 10, x given in thousandths (no exact ties)
Format2f(x) ==
    LET h == (x + 5) \div 10
    IN  <<DigitChar(h \div 100), ".", DigitChar((h \div 10) % 10), DigitChar(h % 10)>>

-----------------------------------------------------------------------------
(* merge_all_bigscape_networks *)

DEFAULT_CUTOFF == 300

NetworkSuffix == <<".", "n", "e", "t", "w", "o", "r", "k">>

\* "*_c{:.2f}.network".format(bigscape_cutoff): what follows the leading *
NetworkNamePattern(bigscape_cutoff) ==
    <<"_", "c">> \o Format2f(bigscape_cutoff) \o NetworkSuffix

\* dir_entry.match(pattern) for a pattern "*" + tail
PathMatch(name, tail) == EndsWith(name, tail)

MatchName(row) == row.c1 \o row.c2

RECURSIVE SumDist(_, _)
SumDist(rows, idx) ==
    IF idx = {} THEN 0
    ELSE LET i == CHOOSE k \in idx : TRUE
         IN  rows[i].dist + SumDist(rows, idx \ {i})

\* groupby('Match_name')['Raw distance'].mean(), looked up for one key
GroupMean(rows, key) ==
    LET idx == {i \in 1..Len(rows) : MatchName(rows[i]) = key}
    IN  [num |-> SumDist(rows, idx), den |-> Cardinality(idx)]

\* DataFrame.drop_duplicates(): the first occurrence of every row is kept
RECURSIVE DropDuplicates(_)
DropDuplicates(rows) ==
    IF rows = <<>> THEN <<>>
    ELSE LET init == DropDuplicates(SubSeq(rows, 1, Len(rows) - 1))
             last == rows[Len(rows)]
         IN  IF last \in Range(init) THEN init ELSE Append(init, last)

\* lines 130-140: key, mean per key, inner join, drop_duplicates, drop key
CombineNetworks(network_values) ==
    LET joined == [i \in 1..Len(network_values) |->
                      [Match_name |-> MatchName(network_values[i]),
                       c1 |-> network_values[i].c1,
                       c2 |-> network_values[i].c2,
                       dist |-> GroupMean(network_values, MatchName(network_values[i]))]]
        unique == DropDuplicates(joined)
    IN  [i \in 1..Len(unique) |->
            [c1 |-> unique[i].c1, c2 |-> unique[i].c2, dist |-> unique[i].dist]]

\* lines 118-128: one result directory; st = [values, appended, error]
RECURSIVE ScanResultDir(_, _, _, _)
ScanResultDir(listing, tail, network_found, st) ==
    IF listing = <<>> \/ st.error # "" THEN st
    ELSE LET dir_entry == Head(listing)
         IN  IF dir_entry.is_file /\ PathMatch(dir_entry.name, tail)
             THEN IF ~network_found
                  THEN ScanResultDir(Tail(listing), tail, TRUE,
                                     [st EXCEPT !.values = st.values \o dir_entry.rows,
                                                !.appended = TRUE])
                  ELSE [st EXCEPT !.error = "ValueError: Multiple network files"]
             ELSE ScanResultDir(Tail(listing), tail, network_found, st)

\* lines 116-128: all result directories, in order
RECURSIVE ScanResults(_, _, _)
ScanResults(results, tail, st) ==
    IF results = <<>> \/ st.error # "" THEN st
    ELSE ScanResults(Tail(results), tail, ScanResultDir(Head(results), tail, FALSE, st))

\* an empty DataFrame() has no column "Clustername 1": line 130 raises KeyError
merge_all_bigscape_networks(results, bigscape_cutoff) ==
    LET st == ScanResults(results, NetworkNamePattern(bigscape_cutoff),
                          [values |-> <<>>, appended |-> FALSE, error |-> ""])
    IN  IF st.error # "" THEN [raised |-> st.error, value |-> None]
        ELSE IF ~st.appended THEN [raised |-> "KeyError: Clustername 1", value |-> None]
        ELSE [raised |-> "", value |-> CombineNetworks(st.values)]

-----------------------------------------------------------------------------
(* Inputs of the network merger *)

Cutoffs == {300, 304, 500}

Id_a == <<"a">>
Id_b == <<"b">>
Id_c == <<"c">>
Id_ab == <<"a", "b">>
Id_bc == <<"b", "c">>

NetRow(a, b, d) == [c1 |-> a, c2 |-> b, dist |-> d]

NetName(stem, cut) == stem \o <<"_", "c">> \o cut \o NetworkSuffix

DirEntries ==
    { [name |-> NetName(<<"m">>, <<"0", ".", "3", "0">>), is_file |-> TRUE,
       rows |-> <<NetRow(Id_a, Id_b, 30), NetRow(Id_ab, Id_c, 10)>>],
      [name |-> NetName(<<"n">>, <<"0", ".", "3", "0">>), is_file |-> TRUE,
       rows |-> <<NetRow(Id_a, Id_b, 40), NetRow(Id_b, Id_a, 20), NetRow(Id_a, Id_bc, 30)>>],
      [name |-> NetName(<<"m">>, <<"0", ".", "5", "0">>), is_file |-> TRUE,
       rows |-> <<NetRow(Id_a, Id_b, 50)>>],
      [name |-> NetName(<<"d">>, <<"0", ".", "3", "0">>), is_file |-> FALSE,
       rows |-> <<>>] }

\* a directory listing: entries with distinct names, in iterdir() order
Listings == {l \in SeqsUpTo(DirEntries, MaxEntries) : IsInjective(l)}

ResultLists == SeqsUpTo(Listings, MaxDirs)

MergeInit ==
    /\ pc = "merge"
    /\ args \in [results : ResultLists, bigscape_cutoff : Cutoffs]
    /\ ret = None

CallMerge ==
    /\ pc = "merge"
    /\ ret' = merge_all_bigscape_networks(args.results, args.bigscape_cutoff)
    /\ pc' = "merged"
    /\ UNCHANGED args

MergeNext == CallMerge

SpecMerge == MergeInit /\ [][MergeNext]_vars

-----------------------------------------------------------------------------
(* Claims about the network merger *)

MatchingFiles(listing, cutoff) ==
    SelectSeq(listing, LAMBDA e : e.is_file /\ PathMatch(e.name, NetworkNamePattern(cutoff)))

RECURSIVE RowsOfMatching(_, _)
RowsOfMatching(results, cutoff) ==
    IF results = <<>> THEN <<>>
    ELSE LET m == MatchingFiles(Head(results), cutoff)
         IN  (IF m = <<>> THEN <<>> ELSE m[1].rows) \o RowsOfMatching(Tail(results), cutoff)

SomeDirHasSeveral(results, cutoff) ==
    \E d \in 1..Len(results) : Len(MatchingFiles(results[d], cutoff)) > 1

Merged == pc = "merged" /\ ret.raised = ""

\* C1: for every unordered cluster pair {a,b} of the input rows, written (a,b) or
\* (b,a), the merged table holds exactly one row for the pair, and its raw distance
\* is the arithmetic mean of the raw distances of all input rows of that pair.
C1_OneRowPerUnorderedPair ==
    Merged =>
        LET rows == RowsOfMatching(args.results, args.bigscape_cutoff)
        IN  \A r \in Range(rows) :
                LET same == {i \in 1..Len(rows) : {rows[i].c1, rows[i].c2} = {r.c1, r.c2}}
                    out == {j \in 1..Len(ret.value) :
                               {ret.value[j].c1, ret.value[j].c2} = {r.c1, r.c2}}
                IN  /\ Cardinality(out) = 1
                    /\ \A j \in out :
                          ret.value[j].dist.num * Cardinality(same)
                              = ret.value[j].dist.den * SumDist(rows, same)

\* C9: more than one matching file in some directory fails with the
\* duplicate-network-file error and returns no table; otherwise no error is raised,
\* whatever the number of directories without a matching file (all of them included).
C9_DuplicateOrSilent ==
    pc = "merged" =>
        IF SomeDirHasSeveral(args.results, args.bigscape_cutoff)
        THEN ret.raised = "ValueError: Multiple network files"
        ELSE ret.raised = ""

-----------------------------------------------------------------------------
(* Ordering of strings, dicts *)

\* the characters the model uses, in code-point order
CodePoints ==
    <<"\t", "\n", " ", "!", "#", ",", "-", ".",
      "0", "1", "2", "3", "4", "5", "6", "7", "8", "9",
      "A", "B", "C", "D", "E", "F", "G", "H", "I", "J", "K", "L", "M",
      "N", "O", "P", "Q", "R", "S", "T", "U", "V", "W", "X", "Y", "Z", "_",
      "a", "b", "c", "d", "e", "f", "g", "h", "i", "j", "k", "l", "m",
      "n", "o", "p", "q", "r", "s", "t", "u", "v", "w", "x", "y", "z">>

Ord(ch) == CHOOSE i \in 1..Len(CodePoints) : CodePoints[i] = ch

\* a < b for Python strings
RECURSIVE StrLess(_, _)
StrLess(a, b) ==
    IF a = <<>> THEN b # <<>>
    ELSE IF b = <<>> THEN FALSE
    ELSE IF Head(a) = Head(b) THEN StrLess(Tail(a), Tail(b))
    ELSE Ord(Head(a)) < Ord(Head(b))

\* sorted(S) for a collection of distinct strings
RECURSIVE SortedStrings(_)
SortedStrings(S) ==
    IF S = {} THEN <<>>
    ELSE LET m == CHOOSE x \in S : \A y \in S \ {x} : StrLess(x, y)
         IN  <<m>> \o SortedStrings(S \ {m})

\* A dict is the sequence of its items [k, v] in insertion order, keys distinct.
DictKeys(d) == [i \in 1..Len(d) |-> d[i].k]

KeySet(d) == {d[i].k : i \in 1..Len(d)}

DictGet(d, key) == d[CHOOSE i \in 1..Len(d) : d[i].k = key].v

IsDict(d) == \A i, j \in 1..Len(d) : d[i].k = d[j].k => i = j

\* sorted(d.items()): keys are distinct, so the items are ordered by key
SortedItems(d) ==
    LET ks == SortedStrings(KeySet(d))
    IN  [i \in 1..Len(ks) |-> [k |-> ks[i], v |-> DictGet(d, ks[i])]]

-----------------------------------------------------------------------------
(* Text: rstrip, split, join, replace, sanitising *)

TAB == "\t"
NL == "\n"

Whitespace == {" ", TAB, NL}

Digits == <<"0", "1", "2", "3", "4", "5", "6", "7", "8", "9">>

UpperCase ==
    <<"A", "B", "C", "D", "E", "F", "G", "H", "I", "J", "K", "L", "M",
      "N", "O", "P", "Q", "R", "S", "T", "U", "V", "W", "X", "Y", "Z">>

LowerCase ==
    <<"a", "b", "c", "d", "e", "f", "g", "h", "i", "j", "k", "l", "m",
      "n", "o", "p", "q", "r", "s", "t", "u", "v", "w", "x", "y", "z">>

\* the class [A-Za-z0-9_-]
SafeChars == Range(UpperCase) \cup Range(LowerCase) \cup Range(Digits) \cup {"_", "-"}

\* str.rstrip()
RECURSIVE RStrip(_)
RStrip(s) ==
    IF s # <<>> /\ s[Len(s)] \in Whitespace THEN RStrip(SubSeq(s, 1, Len(s) - 1)) ELSE s

\* str.split(sep) for a one-character separator
RECURSIVE Split(_, _)
Split(s, sep) ==
    IF \A i \in 1..Len(s) : s[i] # sep THEN <<s>>
    ELSE LET i == CHOOSE k \in 1..Len(s) :
                      s[k] = sep /\ \A m \in 1..(k - 1) : s[m] # sep
         IN  <<SubSeq(s, 1, i - 1)>> \o Split(SubSeq(s, i + 1, Len(s)), sep)

\* sep.join(parts)
RECURSIVE Join(_, _)
Join(parts, sep) ==
    IF parts = <<>> THEN <<>>
    ELSE IF Len(parts) = 1 THEN parts[1]
    ELSE parts[1] \o sep \o Join(Tail(parts), sep)

\* str.replace(old, new), old not empty
RECURSIVE Replace(_, _, _)
Replace(s, old, new) ==
    IF Len(s) < Len(old) THEN s
    ELSE IF StartsWith(s, old)
         THEN new \o Replace(SubSeq(s, Len(old) + 1, Len(s)), old, new)
         ELSE <<Head(s)>> \o Replace(Tail(s), old, new)

\* sub in s
Contains(s, sub) ==
    \E i \in 1..(Len(s) - Len(sub) + 1) : SubSeq(s, i, i + Len(sub) - 1) = sub

SpacesToUnderscores(s) == [i \in 1..Len(s) |-> IF s[i] = " " THEN "_" ELSE s[i]]

\* the mutant of Sanitize: spaces replaced, nothing removed
SanitizeKeepsAll(s) == SpacesToUnderscores(s)

\* re.sub(r"[^A-Za-z0-9_-]", "", s.replace(" ", "_"))
Sanitize(s) == SelectSeq(SpacesToUnderscores(s), LAMBDA ch : ch \in SafeChars)

\* str(n) for n >= 0
RECURSIVE IntToStr(_)
IntToStr(n) == IF n < 10 THEN <<DigitChar(n)>> ELSE IntToStr(n \div 10) \o <<DigitChar(n % 10)>>

-----------------------------------------------------------------------------
(* get_absence_presence_matrix, get_preordered_matrix *)

\* lines 184-185 and 245-246: one family's counts, one per genome in sorted order
FamilyCountsUnsorted(clusters_in_genomes, family_members) ==
    [i \in 1..Len(clusters_in_genomes) |->
        Cardinality(clusters_in_genomes[i].v \cap family_members)]

FamilyCounts(clusters_in_genomes, family_members) ==
    LET items == SortedItems(clusters_in_genomes)
    IN  [i \in 1..Len(items) |-> Cardinality(items[i].v \cap family_members)]

\* pd.DataFrame(data=families_clusters, index=sorted(clusters_in_genomes.keys()))
\* for the columns (an OrderedDict's keys) in their order
CountTable(families_with_names, clusters_in_genomes, columns) ==
    [columns |-> columns,
     index |-> SortedStrings(KeySet(clusters_in_genomes)),
     data |-> [j \in 1..Len(columns) |->
                  FamilyCounts(clusters_in_genomes, DictGet(families_with_names, columns[j]))]]

\* the marker that opens every serialized matrix
NAMES == <<"#", "N", "A", "M", "E", "S">>

\* one record of the csv writer: a record of one empty field is written as ""
CsvLine(fields) == IF fields = <<<<>>>> THEN <<"\"", "\"">> ELSE Join(fields, <<",">>)

\* the mutant of CsvRows: the last record is not terminated
RECURSIVE CsvRowsUnterminated(_)
CsvRowsUnterminated(records) ==
    IF records = <<>> THEN <<>>
    ELSE IF Len(records) = 1 THEN CsvLine(records[1])
    ELSE CsvLine(Head(records)) \o <<NL>> \o CsvRowsUnterminated(Tail(records))

\* every record is written followed by the line terminator
RECURSIVE CsvRows(_)
CsvRows(records) ==
    IF records = <<>> THEN <<>>
    ELSE CsvLine(Head(records)) \o <<NL>> \o CsvRows(Tail(records))

\* DataFrame.to_csv(): the header record (an empty index label, then the columns),
\* then one record per index entry
to_csv(table) ==
    CsvRows(<< <<<<>>>> \o table.columns >>
              \o [i \in 1..Len(table.index) |->
                     <<table.index[i]>>
                        \o [j \in 1..Len(table.columns) |-> IntToStr(table.data[j][i])]])

\* lines 181-195; leaves is what scipy's leaves_list returns (indices from 1 here).
\* linkage() raises ValueError on fewer than two observations.
get_absence_presence_matrix(families_with_names, clusters_in_genomes, leaves) ==
    LET names == SortedStrings(KeySet(families_with_names))
        absence_presence_tmp == CountTable(families_with_names, clusters_in_genomes, names)
        absence_presence_reordered ==
            CountTable(families_with_names, clusters_in_genomes,
                       [i \in 1..Len(leaves) |-> absence_presence_tmp.columns[leaves[i]]])
    IN  IF Len(names) < 2
        THEN [raised |-> "ValueError: linkage", value |-> None, text |-> <<>>]
        ELSE [raised |-> "", value |-> absence_presence_reordered,
              text |-> NAMES \o to_csv(absence_presence_reordered)]

\* line 243 for one number: the families whose name starts with number + "_"
FamiliesStartingWith(families_with_names, family_number) ==
    SelectSeq(DictKeys(families_with_names),
              LAMBDA x : StartsWith(x, family_number \o <<"_">>))

\* the mutant of FamiliesByOrder: the families the numbers select, in sorted order
FamiliesByOrderSorted(families_with_names, family_order) ==
    SortedStrings({x \in KeySet(families_with_names) :
                      \E t \in Range(family_order) : StartsWith(x, t \o <<"_">>)})

\* lines 240-243
RECURSIVE FamiliesByOrder(_, _)
FamiliesByOrder(families_with_names, family_order) ==
    IF family_order = <<>> THEN <<>>
    ELSE FamiliesStartingWith(families_with_names, Head(family_order))
             \o FamiliesByOrder(families_with_names, Tail(family_order))

OrderLengthCovers(families_with_names, family_order) ==
    Len(families_with_names) <= Len(family_order)

\* line 236
OrderLengthMatches(families_with_names, family_order) ==
    Len(families_with_names) = Len(family_order)

\* lines 234-250; assigning an OrderedDict key again keeps its first position
get_preordered_matrix(families_with_names, clusters_in_genomes, family_order) ==
    IF ~OrderLengthMatches(families_with_names, family_order)
    THEN [raised |-> "ValueError: Length of family order list must match amount of families",
          value |-> None, text |-> <<>>]
    ELSE LET absence_presence_df ==
                 CountTable(families_with_names, clusters_in_genomes,
                            DropDuplicates(FamiliesByOrder(families_with_names, family_order)))
         IN  [raised |-> "", value |-> absence_presence_df,
              text |-> NAMES \o to_csv(absence_presence_df)]

-----------------------------------------------------------------------------
(* Inputs of the matrix builder *)

MaxFamilies == 2
MaxGenomes == 2

FamilyNames == {<<"1", "_", "t">>, <<"2", "_", "t">>, <<"1", "_", "2", "_", "t">>}

OrderTokens == {<<"1">>, <<"2">>, <<"1", "_", "2">>}

GenomeNames == {<<"O", "1">>, <<"O", "2">>, <<"o">>}

DictsUpTo(K, V, n) == {d \in SeqsUpTo([k : K, v : V], n) : IsDict(d)}

FamilyDicts == DictsUpTo(FamilyNames, {{Id_a}, {Id_a, Id_b}}, MaxFamilies)

GenomeDicts == DictsUpTo(GenomeNames, {{Id_b}, {Id_a, Id_b}}, MaxGenomes)

LeafOrders(n) == {p \in [1..n -> 1..n] : \A i, j \in 1..n : p[i] = p[j] => i = j}

MatrixInit ==
    /\ pc \in {"heuristic", "preordered"}
    /\ args \in [families_with_names : FamilyDicts,
                 clusters_in_genomes : GenomeDicts,
                 family_order : IF pc = "preordered"
                                THEN SeqsUpTo(OrderTokens, MaxFamilies) ELSE {<<>>}]
    /\ ret = None

CallAbsencePresenceMatrix ==
    /\ pc = "heuristic"
    /\ \E leaves \in LeafOrders(Len(args.families_with_names)) :
           ret' = get_absence_presence_matrix(args.families_with_names,
                                              args.clusters_in_genomes, leaves)
    /\ pc' = "heuristic_done"
    /\ UNCHANGED args

CallPreorderedMatrix ==
    /\ pc = "preordered"
    /\ ret' = get_preordered_matrix(args.families_with_names, args.clusters_in_genomes,
                                    args.family_order)
    /\ pc' = "preordered_done"
    /\ UNCHANGED args

MatrixNext == CallAbsencePresenceMatrix \/ CallPreorderedMatrix

SpecMatrix == MatrixInit /\ [][MatrixNext]_vars

-----------------------------------------------------------------------------
(* Claims about the matrix builder *)

MatrixReturned == pc \in {"heuristic_done", "preordered_done"} /\ ret.raised = ""

Min(a, b) == IF a <= b THEN a ELSE b

\* C2: every cell (genome g, family f) of the matrix of get_absence_presence_matrix
\* and of get_preordered_matrix is |clusters(g) \cap clusters(f)|: 0 when the two
\* sets are disjoint, and never more than min(|clusters(g)|, |clusters(f)|).
C2_CellIsIntersectionSize ==
    MatrixReturned =>
        \A j \in 1..Len(ret.value.columns) : \A i \in 1..Len(ret.value.index) :
            LET g == DictGet(args.clusters_in_genomes, ret.value.index[i])
                f == DictGet(args.families_with_names, ret.value.columns[j])
                cell == ret.value.data[j][i]
            IN  /\ Len(ret.value.data[j]) = Len(ret.value.index)
                /\ cell = Cardinality(g \cap f)
                /\ (g \cap f = {} => cell = 0)
                /\ cell <= Min(Cardinality(g), Cardinality(f))

\* a returned matrix with a cell of each kind: 0 for disjoint sets, 1, and 2
C2_Witness ==
    /\ MatrixReturned
    /\ Len(ret.value.index) = 2
    /\ \E j \in 1..Len(ret.value.columns) :
          /\ ret.value.data[j][1] = 0
          /\ ret.value.data[j][2] = 1
    /\ \E j \in 1..Len(ret.value.columns) : ret.value.data[j][2] = 2
    /\ DictKeys(args.clusters_in_genomes) # ret.value.index

\* C4: for every order list that get_preordered_matrix accepts, the output columns
\* hold each family name exactly once (a permutation of the family names).
C4_ColumnsArePermutation ==
    (pc = "preordered_done" /\ ret.raised = "") =>
        /\ Len(ret.value.columns) = Len(args.families_with_names)
        /\ Range(ret.value.columns) = KeySet(args.families_with_names)
        /\ IsInjective(ret.value.columns)

\* C6: get_preordered_matrix raises the order-length-mismatch error exactly when
\* the number of order tokens differs from the number of families, and then
\* produces no matrix.
C6_LengthMismatchRaises ==
    pc = "preordered_done" =>
        IF Len(args.family_order) # Len(args.families_with_names)
        THEN /\ ret.raised = "ValueError: Length of family order list must match amount of families"
             /\ ret.value = None
        ELSE ret.raised = "" /\ ret.value # None

\* two tokens for one family: refused, no matrix
C6_Witness ==
    /\ pc = "preordered_done"
    /\ ret.raised # ""
    /\ Len(args.family_order) = 2
    /\ Len(args.families_with_names) = 1

-----------------------------------------------------------------------------
(* map_clusters_to_names, match_clusters_to_genomes *)

BGC == <<"B", "G", "C">>

BiosyntheticPhrase ==
    <<" ", "b", "i", "o", "s", "y", "n", "t", "h", "e", "t", "i", "c",
      " ", "g", "e", "n", "e", " ", "c", "l", "u", "s", "t", "e", "r">>

EXPECTED_COLUMNS == 7

FormatWarning == "Line(s) in the summary file contain a nonstandard number of columns"

\* d[key] = value: a new key goes last, a known key keeps its place
DictPut(d, key, value) ==
    IF key \in KeySet(d)
    THEN [i \in 1..Len(d) |-> IF d[i].k = key THEN [k |-> key, v |-> value] ELSE d[i]]
    ELSE Append(d, [k |-> key, v |-> value])

\* the mutant of AddToSet: the member replaces the set of a known key
AddToSetReplacing(d, key, member) == DictPut(d, key, {member})

\* lines 88-91: the cluster joins its genome's set
AddToSet(d, key, member) ==
    IF key \in KeySet(d) THEN DictPut(d, key, DictGet(d, key) \cup {member})
    ELSE DictPut(d, key, {member})

ParseStart ==
    [genomes_with_clusters |-> <<>>, bgcs_with_names |-> <<>>,
     clusters_with_types |-> <<>>, wrong_line_format |-> FALSE, error |-> ""]

\* the mutant of NamesRow: a reference cluster is listed under its genome field too
NamesRowAllGenomes(st, text) ==
    LET line == Split(RStrip(text), TAB)
        flagged == [st EXCEPT !.wrong_line_format = @ \/ Len(line) # EXPECTED_COLUMNS]
        cluster == line[1]
    IN  IF Len(line) < 6 THEN [flagged EXCEPT !.error = "IndexError"]
        ELSE [flagged EXCEPT
                 !.bgcs_with_names =
                     IF StartsWith(cluster, BGC)
                     THEN DictPut(@, cluster, Sanitize(Replace(line[3], BiosyntheticPhrase, <<>>)))
                     ELSE @,
                 !.genomes_with_clusters = AddToSet(@, Sanitize(line[6]), cluster),
                 !.clusters_with_types = DictPut(@, cluster, line[5])]

\* lines 73-93 for one line read from the file; line[n] raises IndexError
\* when the line has fewer than n + 1 fields
NamesRow(st, text) ==
    LET line == Split(RStrip(text), TAB)
        flagged == [st EXCEPT !.wrong_line_format = @ \/ Len(line) # EXPECTED_COLUMNS]
        cluster == line[1]
    IN  IF StartsWith(cluster, BGC)
        THEN IF Len(line) < 3 THEN [flagged EXCEPT !.error = "IndexError"]
             ELSE LET cluster_name == Sanitize(Replace(line[3], BiosyntheticPhrase, <<>>))
                      named == [flagged EXCEPT !.bgcs_with_names =
                                                   DictPut(@, cluster, cluster_name)]
                  IN  IF Len(line) < 5 THEN [named EXCEPT !.error = "IndexError"]
                      ELSE [named EXCEPT !.clusters_with_types =
                                             DictPut(@, cluster, line[5])]
        ELSE IF Len(line) < 6 THEN [flagged EXCEPT !.error = "IndexError"]
             ELSE [flagged EXCEPT
                      !.genomes_with_clusters = AddToSet(@, Sanitize(line[6]), cluster),
                      !.clusters_with_types = DictPut(@, cluster, line[5])]

\* lines 64-75 of make_abs_pres.py for one line read from the file
GenomesRow(st, text) ==
    LET line == Split(RStrip(text), TAB)
        flagged == [st EXCEPT !.wrong_line_format = @ \/ Len(line) # EXPECTED_COLUMNS]
    IN  IF Len(line) < 6 THEN [flagged EXCEPT !.error = "IndexError"]
        ELSE [flagged EXCEPT
                 !.genomes_with_clusters = AddToSet(@, Sanitize(line[6]), line[1])]

\* the while loop over the lines after the header, stopped by the first error
RECURSIVE ParseRows(_, _, _)
ParseRows(lines, st, networkx) ==
    IF lines = <<>> \/ st.error # "" THEN st
    ELSE ParseRows(Tail(lines),
                   IF networkx THEN NamesRow(st, Head(lines)) ELSE GenomesRow(st, Head(lines)),
                   networkx)

\* a file is the sequence of its lines, each with its line end; readline() on an
\* empty file gives ""
ParseSummary(summary_file, networkx) ==
    LET first == IF summary_file = <<>> THEN <<>> ELSE Head(summary_file)
    IN  IF ~StartsWith(first, BGC)
        THEN [raised |-> "ValueError: Header line of summary file missing.",
              value |-> None, stderr |-> <<>>]
        ELSE LET st == ParseRows(Tail(summary_file), ParseStart, networkx)
             IN  IF st.error # ""
                 THEN [raised |-> st.error, value |-> None, stderr |-> <<>>]
                 ELSE [raised |-> "",
                       value |-> [genomes_with_clusters |-> st.genomes_with_clusters,
                                  bgcs_with_names |-> st.bgcs_with_names,
                                  clusters_with_types |-> st.clusters_with_types],
                       stderr |-> IF st.wrong_line_format THEN <<FormatWarning>> ELSE <<>>]

\* make_abs_pres_networkx.py, lines 52-100
map_clusters_to_names(summary_file) == ParseSummary(summary_file, TRUE)

\* make_abs_pres.py, lines 47-80: the genome dict alone is returned
match_clusters_to_genomes(summary_file) ==
    LET r == ParseSummary(summary_file, FALSE)
    IN  [raised |-> r.raised,
         value |-> IF r.raised = "" THEN r.value.genomes_with_clusters ELSE None,
         stderr |-> r.stderr]

-----------------------------------------------------------------------------
(* Inputs of the summary parser: a table is a sequence of rows, a row the   *)
(* sequence of its fields; the file holds each row tab-joined on a line.    *)

MaxRows == 2

Id_x == <<"x">>
Id_y == <<"y">>
Id_BGC1 == <<"B", "G", "C", "1">>

F_acc == <<"A">>
F_desc == <<"D">>
F_prod == <<"p">>
F_tax == <<"T">>
Type_N == <<"N">>
Type_P == <<"P">>
Org_O_1 == <<"O", " ", "1">>
Org_Odot1 == <<"O", ".", "1">>
Org_O_trailing == <<"O", " ">>
Name_Tm == <<"T", "m">>

HeaderRows == {<<BGC, F_acc>>, <<<<"#">> \o BGC>>}

DataRows ==
    { <<Id_x, F_acc, F_desc, F_prod, Type_N, Org_O_1, F_tax>>,
      <<Id_y, F_acc, F_desc, F_prod, Type_P, Org_Odot1, F_tax>>,
      <<Id_x, F_acc, F_desc, F_prod, Type_P, Org_Odot1, F_tax>>,
      <<Id_BGC1, F_acc, Name_Tm \o BiosyntheticPhrase, F_prod, Type_N, <<"-">>, F_tax>>,
      <<Id_y, F_acc, F_desc, F_prod, Type_N, Org_O_1>>,
      <<Id_x, F_acc, F_desc, F_prod, Type_N, Org_O_1, F_tax, F_tax>>,
      <<Id_x, F_acc, F_desc, F_prod, Type_N>>,
      <<Id_y, F_acc, F_desc, F_prod, Type_N, Org_O_trailing, <<>>>>,
      <<<<>>>>,
      <<Id_BGC1, F_acc, Name_Tm>> }

SummaryTables ==
    {<<>>} \cup {<<h>> \o rows : h \in HeaderRows, rows \in SeqsUpTo(DataRows, MaxRows)}

\* the file of a table
FileOf(table) == [i \in 1..Len(table) |-> Join(table[i], <<TAB>>) \o <<NL>>]

SummaryInit ==
    /\ pc \in {"map_clusters_to_names", "match_clusters_to_genomes"}
    /\ args \in [table : SummaryTables]
    /\ ret = None

CallMapClustersToNames ==
    /\ pc = "map_clusters_to_names"
    /\ ret' = map_clusters_to_names(FileOf(args.table))
    /\ pc' = "names_done"
    /\ UNCHANGED args

CallMatchClustersToGenomes ==
    /\ pc = "match_clusters_to_genomes"
    /\ ret' = match_clusters_to_genomes(FileOf(args.table))
    /\ pc' = "genomes_done"
    /\ UNCHANGED args

SummaryNext == CallMapClustersToNames \/ CallMatchClustersToGenomes

SpecSummary == SummaryInit /\ [][SummaryNext]_vars

-----------------------------------------------------------------------------
(* Claims about the summary parser *)

SummaryDone == pc \in {"names_done", "genomes_done"}

HeaderPresent == args.table # <<>> /\ StartsWith(args.table[1][1], BGC)

RowsOf(table) == SubSeq(table, 2, Len(table))

GenomesOf(r) == IF pc = "names_done" THEN r.value.genomes_with_clusters ELSE r.value

\* the data rows that name a genome: all of them for match_clusters_to_genomes,
\* those of query clusters for map_clusters_to_names
GenomeRows ==
    {i \in 2..Len(args.table) : pc = "genomes_done" \/ ~StartsWith(args.table[i][1], BGC)}

\* C7: a data row whose field count differs from 7 (more or fewer, fewer than 6
\* included) never aborts the parse: it runs to the end, returns its mappings and
\* reports the condition as a single warning.
C7_OddRowsOnlyWarn ==
    (SummaryDone /\ HeaderPresent) =>
        /\ ret.raised = ""
        /\ (\E i \in 2..Len(args.table) : Len(args.table[i]) # EXPECTED_COLUMNS)
               => ret.stderr = <<FormatWarning>>

\* each space becomes '_', every other character outside [A-Za-z0-9_-] is dropped
RECURSIVE ClaimedName(_)
ClaimedName(raw) ==
    IF raw = <<>> THEN <<>>
    ELSE (IF Head(raw) = " " THEN <<"_">>
          ELSE IF Head(raw) \in SafeChars THEN <<Head(raw)>> ELSE <<>>)
             \o ClaimedName(Tail(raw))

\* C8 as stated: every genome name returned has only characters of [A-Za-z0-9_-],
\* is the raw sixth field with spaces turned into '_' and the other disallowed
\* characters removed, and is unchanged by sanitising it again.
C8_NameIsRawSixthFieldSanitized ==
    (SummaryDone /\ ret.raised = "") =>
        /\ \A name \in KeySet(GenomesOf(ret)) : Range(name) \subseteq SafeChars
        /\ KeySet(GenomesOf(ret)) = {ClaimedName(args.table[i][6]) : i \in GenomeRows}
        /\ \A name \in KeySet(GenomesOf(ret)) : Sanitize(name) = name

\* the fields of a row once the trailing whitespace of its line is gone: blank
\* fields at the end fall away with their tabs, the last field left loses its
\* trailing whitespace
RECURSIVE StrippedRow(_)
StrippedRow(row) ==
    LET last == RStrip(row[Len(row)])
    IN  IF last = <<>> /\ Len(row) > 1 THEN StrippedRow(SubSeq(row, 1, Len(row) - 1))
        ELSE [row EXCEPT ![Len(row)] = last]

\* C8 amended: every genome name returned has only characters of [A-Za-z0-9_-], is
\* the sixth field of the row as it stands after the trailing whitespace of its line
\* is stripped, with spaces turned into '_' and the other disallowed characters
\* removed, and is unchanged by sanitising it again.
C8_NameIsSixthFieldSanitized ==
    (SummaryDone /\ ret.raised = "") =>
        /\ \A name \in KeySet(GenomesOf(ret)) : Range(name) \subseteq SafeChars
        /\ KeySet(GenomesOf(ret)) = {ClaimedName(StrippedRow(args.table[i])[6]) : i \in GenomeRows}
        /\ \A name \in KeySet(GenomesOf(ret)) : Sanitize(name) = name

\* a parse that returned names made from "O.1" (a character removed) and from
\* "O 1" (a space replaced)
C8_Witness ==
    /\ SummaryDone
    /\ ret.raised = ""
    /\ KeySet(GenomesOf(ret)) = {<<"O", "1">>, <<"O", "_", "1">>}
    /\ \E i \in GenomeRows : args.table[i][6] = Org_Odot1

-----------------------------------------------------------------------------
(* get_connected_from_df *)

\* the nodes of nx.from_pandas_edgelist, in the order the edges add them
RECURSIVE Endpoints(_)
Endpoints(network_df) ==
    IF network_df = <<>> THEN <<>>
    ELSE <<Head(network_df).c1, Head(network_df).c2>> \o Endpoints(Tail(network_df))

GraphNodes(network_df) == DropDuplicates(Endpoints(network_df))

Neighbours(network_df, S) ==
    {r.c2 : r \in {q \in Range(network_df) : q.c1 \in S}}
        \cup {r.c1 : r \in {q \in Range(network_df) : q.c2 \in S}}

\* breadth-first search from the nodes of S
RECURSIVE PlainBfs(_, _)
PlainBfs(network_df, S) ==
    LET next == S \cup Neighbours(network_df, S)
    IN  IF next = S THEN S ELSE PlainBfs(network_df, next)

\* the mutant of ComponentsFrom: one component per node, seen before or not
RECURSIVE ComponentsFromEveryNode(_, _, _)
ComponentsFromEveryNode(network_df, nodes, seen) ==
    IF nodes = <<>> THEN <<>>
    ELSE <<PlainBfs(network_df, {Head(nodes)})>>
             \o ComponentsFromEveryNode(network_df, Tail(nodes), seen)

\* nx.connected_components: one component per node not seen before, in node order
RECURSIVE ComponentsFrom(_, _, _)
ComponentsFrom(network_df, nodes, seen) ==
    IF nodes = <<>> THEN <<>>
    ELSE IF Head(nodes) \in seen THEN ComponentsFrom(network_df, Tail(nodes), seen)
    ELSE LET c == PlainBfs(network_df, {Head(nodes)})
         IN  <<c>> \o ComponentsFrom(network_df, Tail(nodes), seen \cup c)

ConnectedComponents(network_df) == ComponentsFrom(network_df, GraphNodes(network_df), {})

\* the mutant of IsFamily: components without any reference cluster
HasNoReference(components) == \A component \in components : ~StartsWith(component, BGC)

\* line 46: not all members are reference clusters
IsFamily(components) == ~(\A component \in components : StartsWith(component, BGC))

\* line 47: "_".join of the set of the members' types; iteration is the order of
\* the set's elements in type_order
CompoundType(components, cluster_types, type_order) ==
    LET types == {DictGet(cluster_types, component) : component \in components}
    IN  Join(SelectSeq(type_order, LAMBDA t : t \in types), <<"_">>)

\* lines 44-48 over the components still to visit; type_orders[i] orders the type
\* set of the i-th component visited
RECURSIVE TrimComponents(_, _, _, _)
TrimComponents(comps, cluster_types, type_orders, i) ==
    IF comps = <<>> THEN <<>>
    ELSE (IF IsFamily(Head(comps))
          THEN <<[compound_class |-> CompoundType(Head(comps), cluster_types, type_orders[i]),
                  clusters |-> Head(comps)]>>
          ELSE <<>>)
             \o TrimComponents(Tail(comps), cluster_types, type_orders, i + 1)

\* cluster_types[component] raises KeyError for a member of a family that has no type
get_connected_from_df(network_df, cluster_types, type_orders) ==
    LET comps == ConnectedComponents(network_df)
    IN  IF \E i \in 1..Len(comps) :
              IsFamily(comps[i]) /\ ~(comps[i] \subseteq KeySet(cluster_types))
        THEN [raised |-> "KeyError", value |-> None]
        ELSE [raised |-> "", value |-> TrimComponents(comps, cluster_types, type_orders, 1)]

-----------------------------------------------------------------------------
(* Inputs of the family detector *)

MaxEdges == 2

Id_BGC2 == <<"B", "G", "C", "2">>

NetworkIds == {Id_x, Id_y, Id_BGC1, Id_BGC2}

EdgeTables == SeqsUpTo({NetRow(a, b, 30) : a \in NetworkIds, b \in NetworkIds}, MaxEdges)

AllTypes ==
    <<[k |-> Id_x, v |-> Type_N], [k |-> Id_y, v |-> Type_P],
      [k |-> Id_BGC1, v |-> Type_N], [k |-> Id_BGC2, v |-> Type_P]>>

TypeDicts == {AllTypes, SubSeq(AllTypes, 1, 1) \o SubSeq(AllTypes, 3, 4)}

\* the orders in which a set of types may be iterated
TypeOrders == {<<Type_N, Type_P>>, <<Type_P, Type_N>>}

ConnectedInit ==
    /\ pc = "get_connected_from_df"
    /\ args \in [network_df : EdgeTables, cluster_types : TypeDicts]
    /\ ret = None

CallConnectedFromDf ==
    /\ pc = "get_connected_from_df"
    /\ \E type_orders \in [1..Len(ConnectedComponents(args.network_df)) -> TypeOrders] :
           ret' = get_connected_from_df(args.network_df, args.cluster_types, type_orders)
    /\ pc' = "connected_done"
    /\ UNCHANGED args

ConnectedNext == CallConnectedFromDf

SpecConnected == ConnectedInit /\ [][ConnectedNext]_vars

-----------------------------------------------------------------------------
(* Claims about the family detector *)

Linked(network_df, a, b) == \E r \in Range(network_df) : {r.c1, r.c2} = {a, b}

\* b can be reached from a over at most n edges
RECURSIVE PathWithin(_, _, _, _)
PathWithin(network_df, a, b, n) ==
    \/ a = b
    \/ /\ n > 0
       /\ \E c \in Range(Endpoints(network_df)) :
              Linked(network_df, a, c) /\ PathWithin(network_df, c, b, n - 1)

ComponentOfNode(network_df, a) ==
    LET nodes == Range(Endpoints(network_df))
    IN  {b \in nodes : PathWithin(network_df, a, b, Cardinality(nodes))}

IsQuery(cluster) == ~StartsWith(cluster, BGC)

\* C3: get_connected_from_df never returns a family of reference clusters only:
\* each returned family holds a query cluster, and every connected component that
\* holds a query cluster is returned.
C3_FamiliesHoldAQueryCluster ==
    (pc = "connected_done" /\ ret.raised = "") =>
        LET returned == {ret.value[i].clusters : i \in 1..Len(ret.value)}
            nodes == Range(Endpoints(args.network_df))
        IN  /\ \A i \in 1..Len(ret.value) : \E m \in ret.value[i].clusters : IsQuery(m)
            /\ returned = {ComponentOfNode(args.network_df, a) : a \in {n \in nodes : IsQuery(n)}}
            /\ Cardinality(returned) = Len(ret.value)

\* a reference-only component was dropped and a mixed one returned
C3_Witness ==
    /\ pc = "connected_done"
    /\ ret.raised = ""
    /\ Len(ret.value) = 1
    /\ ret.value[1].clusters = {Id_x, Id_BGC2}
    /\ Id_BGC1 \in Range(Endpoints(args.network_df))

-----------------------------------------------------------------------------
(* get_families (make_abs_pres_networkx.py) *)

\* the mutant of InsertBySize: of two families of one size the later comes first
RECURSIVE InsertBySizeUnstable(_, _)
InsertBySizeUnstable(sorted, family) ==
    IF sorted = <<>> THEN <<family>>
    ELSE IF Cardinality(Head(sorted).clusters) > Cardinality(family.clusters)
         THEN <<Head(sorted)>> \o InsertBySizeUnstable(Tail(sorted), family)
         ELSE <<family>> \o sorted

\* sorted(connected_families, key=len, reverse=True): by size, largest first,
\* families of one size in their input order
RECURSIVE InsertBySize(_, _)
InsertBySize(sorted, family) ==
    IF sorted = <<>> THEN <<family>>
    ELSE IF Cardinality(Head(sorted).clusters) >= Cardinality(family.clusters)
         THEN <<Head(sorted)>> \o InsertBySize(Tail(sorted), family)
         ELSE <<family>> \o sorted

RECURSIVE SortedBySize(_)
SortedBySize(connected_families) ==
    IF connected_families = <<>> THEN <<>>
    ELSE InsertBySize(SortedBySize(SubSeq(connected_families, 1, Len(connected_families) - 1)),
                      connected_families[Len(connected_families)])

\* the mutant of NameWithSuffixes: the display name is appended whether or not the
\* name holds it already
RECURSIVE NameWithSuffixesAlways(_, _, _)
NameWithSuffixesAlways(family_name, members, bgc_names) ==
    IF members = <<>> THEN [error |-> "", name |-> family_name]
    ELSE LET component == Head(members)
         IN  IF ~StartsWith(component, BGC)
             THEN NameWithSuffixesAlways(family_name, Tail(members), bgc_names)
             ELSE IF component \notin KeySet(bgc_names)
             THEN [error |-> "KeyError", name |-> family_name]
             ELSE NameWithSuffixesAlways(family_name \o <<"_">> \o DictGet(bgc_names, component),
                                         Tail(members), bgc_names)

\* lines 161-165 over the members still to visit; bgc_names[component] raises
\* KeyError for a reference cluster without a display name
RECURSIVE NameWithSuffixes(_, _, _)
NameWithSuffixes(family_name, members, bgc_names) ==
    IF members = <<>> THEN [error |-> "", name |-> family_name]
    ELSE LET component == Head(members)
         IN  IF ~StartsWith(component, BGC)
             THEN NameWithSuffixes(family_name, Tail(members), bgc_names)
             ELSE IF component \notin KeySet(bgc_names)
             THEN [error |-> "KeyError", name |-> family_name]
             ELSE IF Contains(family_name, DictGet(bgc_names, component))
             THEN NameWithSuffixes(family_name, Tail(members), bgc_names)
             ELSE NameWithSuffixes(family_name \o <<"_">> \o DictGet(bgc_names, component),
                                   Tail(members), bgc_names)

\* the mutant of NameFamilies: the names do not start with the rank
RECURSIVE NameFamiliesUnnumbered(_, _, _, _, _)
NameFamiliesUnnumbered(ranked, index, bgc_names, member_order, families_names) ==
    IF ranked = <<>> THEN [raised |-> "", value |-> families_names]
    ELSE LET components == Head(ranked)
             members == SelectSeq(member_order, LAMBDA cl : cl \in components.clusters)
             named == NameWithSuffixes(components.compound_class, members, bgc_names)
         IN  IF named.error # "" THEN [raised |-> named.error, value |-> None]
             ELSE NameFamiliesUnnumbered(Tail(ranked), index + 1, bgc_names, member_order,
                                         DictPut(families_names, named.name,
                                                 components.clusters))

\* lines 156-166 over the ranked families still to name; member_order gives the
\* order in which a set of clusters is iterated
RECURSIVE NameFamilies(_, _, _, _, _)
NameFamilies(ranked, index, bgc_names, member_order, families_names) ==
    IF ranked = <<>> THEN [raised |-> "", value |-> families_names]
    ELSE LET components == Head(ranked)
             members == SelectSeq(member_order, LAMBDA cl : cl \in components.clusters)
             named == NameWithSuffixes(IntToStr(index) \o <<"_">> \o components.compound_class,
                                       members, bgc_names)
         IN  IF named.error # "" THEN [raised |-> named.error, value |-> None]
             ELSE NameFamilies(Tail(ranked), index + 1, bgc_names, member_order,
                               DictPut(families_names, named.name, components.clusters))

get_families(connected_families, bgc_names, member_order) ==
    NameFamilies(SortedBySize(connected_families), 1, bgc_names, member_order, <<>>)

-----------------------------------------------------------------------------
(* parse_family_order *)

\* lines 210-215: every number met again, in order
RECURSIVE Duplicates(_, _)
Duplicates(family_numbers, numbers_seen) ==
    IF family_numbers = <<>> THEN <<>>
    ELSE (IF Head(family_numbers) \in numbers_seen THEN <<Head(family_numbers)>> ELSE <<>>)
             \o Duplicates(Tail(family_numbers), numbers_seen \cup {Head(family_numbers)})

\* the mutant of FindDuplicates: a number is compared with the one before it only
AdjacentDuplicates(family_numbers) ==
    IF \E i \in 2..Len(family_numbers) : family_numbers[i] = family_numbers[i - 1]
    THEN <<family_numbers[CHOOSE i \in 2..Len(family_numbers) :
                              family_numbers[i] = family_numbers[i - 1]]>>
    ELSE <<>>

FindDuplicates(family_numbers) == Duplicates(family_numbers, {})

\* lines 207-218; the file is the sequence of its lines, readline() gives the first
parse_family_order(order_file) ==
    LET first == IF order_file = <<>> THEN <<>> ELSE Head(order_file)
        family_numbers == Split(RStrip(first), ",")
    IN  IF FindDuplicates(family_numbers) # <<>>
        THEN [raised |-> "ValueError: Family order list contains duplicates", value |-> None]
        ELSE [raised |-> "", value |-> family_numbers]

-----------------------------------------------------------------------------
(* __main__ of make_abs_pres_networkx.py: one action per statement group    *)

SummaryPrefix ==
    <<"N", "e", "t", "w", "o", "r", "k", "_", "A", "n", "n", "o", "t", "a", "t", "i", "o", "n", "s",
      "_", "F", "u", "l", "l">>

\* entry.match("Network_Annotations_Full*")
SummaryMatch(name) == StartsWith(name, SummaryPrefix)

\* lines 276-286 over the entries still to visit
RECURSIVE ScanBase(_, _)
ScanBase(listing, st) ==
    IF listing = <<>> \/ st.error # "" THEN st
    ELSE LET entry == Head(listing)
             found == IF entry.is_file /\ SummaryMatch(entry.name)
                      THEN IF st.all_networks = <<>>
                           THEN [st EXCEPT !.all_networks = <<entry>>]
                           ELSE [st EXCEPT !.error = "ValueError: Multiple summary files found."]
                      ELSE st
         IN  ScanBase(Tail(listing),
                      IF ~entry.is_file /\ found.error = ""
                      THEN [found EXCEPT !.result_dirs = Append(@, entry)]
                      ELSE found)

\* the locals of the run; a local not yet assigned is the empty sequence
RunStart ==
    [all_networks |-> <<>>, result_dirs |-> <<>>,
     genomes_to_clusters |-> <<>>, bgcs_to_names |-> <<>>, clusters_to_types |-> <<>>,
     networks_merged |-> <<>>, connected_components |-> <<>>, named_families |-> <<>>,
     family_file |-> <<>>, order_of_families |-> <<>>,
     abs_pres_matrix |-> None, stdout |-> <<>>, stderr |-> <<>>, raised |-> ""]

Fail(message) == pc' = "failed" /\ ret' = [ret EXCEPT !.raised = message]

\* lines 276-292
RunScan ==
    /\ pc = "scan"
    /\ LET st == ScanBase(args.cluster_dir,
                          [all_networks |-> <<>>, result_dirs |-> <<>>, error |-> ""])
       IN  IF st.error # "" THEN Fail(st.error)
           ELSE IF st.all_networks = <<>> THEN Fail("IOError: No summary file found.")
           ELSE IF st.result_dirs = <<>> THEN Fail("IOError: No results found.")
           ELSE /\ pc' = "map_clusters_to_names"
                /\ ret' = [ret EXCEPT !.all_networks = st.all_networks,
                                      !.result_dirs = st.result_dirs]
    /\ UNCHANGED args

\* line 294
RunMapClusters ==
    /\ pc = "map_clusters_to_names"
    /\ LET r == map_clusters_to_names(ret.all_networks[1].content)
       IN  IF r.raised # "" THEN Fail(r.raised)
           ELSE /\ pc' = "merge"
                /\ ret' = [ret EXCEPT !.genomes_to_clusters = r.value.genomes_with_clusters,
                                      !.bgcs_to_names = r.value.bgcs_with_names,
                                      !.clusters_to_types = r.value.clusters_with_types,
                                      !.stderr = r.stderr]
    /\ UNCHANGED args

ListingsOf(result_dirs) == [i \in 1..Len(result_dirs) |-> result_dirs[i].content]

\* line 296: no cutoff is passed, the default of line 103 applies
RunMerge ==
    /\ pc = "merge"
    /\ LET r == merge_all_bigscape_networks(ListingsOf(ret.result_dirs), DEFAULT_CUTOFF)
       IN  IF r.raised # "" THEN Fail(r.raised)
           ELSE /\ pc' = "get_connected_from_df"
                /\ ret' = [ret EXCEPT !.networks_merged = r.value]
    /\ UNCHANGED args

\* line 298
RunConnected ==
    /\ pc = "get_connected_from_df"
    /\ \E type_orders \in [1..Len(ConnectedComponents(ret.networks_merged)) -> TypeOrders] :
          LET r == get_connected_from_df(ret.networks_merged, ret.clusters_to_types, type_orders)
          IN  IF r.raised # "" THEN Fail(r.raised)
              ELSE /\ pc' = "get_families"
                   /\ ret' = [ret EXCEPT !.connected_components = r.value]
    /\ UNCHANGED args

\* the orders in which a set of clusters may be iterated
MemberOrders(ids) == {s \in [1..Cardinality(ids) -> ids] : IsInjective(s)}

\* lines 300-305: the families are named and listed in the family file, families in
\* sorted order
RunFamilies ==
    /\ pc = "get_families"
    /\ \E member_order \in MemberOrders(Range(Endpoints(ret.networks_merged))) :
          LET r == get_families(ret.connected_components, ret.bgcs_to_names, member_order)
          IN  IF r.raised # "" THEN Fail(r.raised)
              ELSE /\ pc' = IF args.family_order.given THEN "parse_family_order"
                            ELSE "get_absence_presence_matrix"
                   /\ ret' = [ret EXCEPT !.named_families = r.value,
                                         !.family_file = SortedItems(r.value)]
    /\ UNCHANGED args

\* the order file: the tokens comma-joined on one line
FileOfOrder(family_order) == <<Join(family_order.tokens, <<",">>) \o family_order.ending>>

\* line 309
RunParseOrder ==
    /\ pc = "parse_family_order"
    /\ LET r == parse_family_order(FileOfOrder(args.family_order))
       IN  IF r.raised # "" THEN Fail(r.raised)
           ELSE /\ pc' = "get_preordered_matrix"
                /\ ret' = [ret EXCEPT !.order_of_families = r.value]
    /\ UNCHANGED args

\* line 310
RunPreordered ==
    /\ pc = "get_preordered_matrix"
    /\ LET r == get_preordered_matrix(ret.named_families, ret.genomes_to_clusters,
                                      ret.order_of_families)
       IN  IF r.raised # "" THEN Fail(r.raised)
           ELSE /\ pc' = "print"
                /\ ret' = [ret EXCEPT !.abs_pres_matrix = r.value]
    /\ UNCHANGED args

\* line 313
RunHeuristic ==
    /\ pc = "get_absence_presence_matrix"
    /\ \E leaves \in LeafOrders(Len(ret.named_families)) :
          LET r == get_absence_presence_matrix(ret.named_families, ret.genomes_to_clusters,
                                               leaves)
          IN  IF r.raised # "" THEN Fail(r.raised)
              ELSE /\ pc' = "print"
                   /\ ret' = [ret EXCEPT !.abs_pres_matrix = r.value]
    /\ UNCHANGED args

\* line 314
RunPrint ==
    /\ pc = "print"
    /\ pc' = "exit"
    /\ ret' = [ret EXCEPT !.stdout = Append(@, ret.abs_pres_matrix)]
    /\ UNCHANGED args

RunNext ==
    \/ RunScan
    \/ RunMapClusters
    \/ RunMerge
    \/ RunConnected
    \/ RunFamilies
    \/ RunParseOrder
    \/ RunPreordered
    \/ RunHeuristic
    \/ RunPrint

-----------------------------------------------------------------------------
(* Inputs of the run *)

MaxRunDirs == 2
MaxOrderTokens == 3

RunTable ==
    << <<BGC, F_acc>>,
       <<Id_a, F_acc, F_desc, F_prod, Type_N, Org_O_1, F_tax>>,
       <<Id_b, F_acc, F_desc, F_prod, Type_P, Org_Odot1, F_tax>>,
       <<Id_c, F_acc, F_desc, F_prod, Type_N, Org_O_1, F_tax>>,
       <<Id_BGC1, F_acc, Name_Tm \o BiosyntheticPhrase, F_prod, Type_N, <<"-">>, F_tax>> >>

SummaryEntry(tag, table) ==
    [name |-> SummaryPrefix \o tag, is_file |-> TRUE, content |-> FileOf(table)]

SummaryParts ==
    { <<>>,
      <<SummaryEntry(<<"_", "x">>, RunTable)>>,
      <<SummaryEntry(<<"_", "x">>, Tail(RunTable))>>,
      <<SummaryEntry(<<"_", "x">>, RunTable), SummaryEntry(<<"_", "y">>, RunTable)>> }

Run_m30 ==
    [name |-> NetName(<<"m">>, <<"0", ".", "3", "0">>), is_file |-> TRUE,
     rows |-> <<NetRow(Id_a, Id_b, 30), NetRow(Id_c, Id_BGC1, 10)>>]

Run_n30 ==
    [name |-> NetName(<<"n">>, <<"0", ".", "3", "0">>), is_file |-> TRUE,
     rows |-> <<NetRow(Id_a, Id_b, 40)>>]

Run_m50 ==
    [name |-> NetName(<<"m">>, <<"0", ".", "5", "0">>), is_file |-> TRUE,
     rows |-> <<NetRow(Id_a, Id_c, 50)>>]

RunListings == {<<>>, <<Run_m30>>, <<Run_n30>>, <<Run_m50, Run_m30>>, <<Run_m30, Run_n30>>}

DirsOf(listings) ==
    [i \in 1..Len(listings) |->
        [name |-> <<"d", DigitChar(i)>>, is_file |-> FALSE, content |-> listings[i]]]

ClusterDirs ==
    {s \o DirsOf(l) : s \in SummaryParts, l \in SeqsUpTo(RunListings, MaxRunDirs)}

OrderFiles ==
    {[given |-> FALSE, tokens |-> <<>>, ending |-> <<>>]}
        \cup {[given |-> TRUE, tokens |-> t, ending |-> <<NL>>] :
                 t \in SeqsUpTo({<<"1">>, <<"2">>}, MaxOrderTokens) \ {<<>>}}

RunInit ==
    /\ pc = "scan"
    /\ args \in [cluster_dir : ClusterDirs, cutoff : Cutoffs, family_order : OrderFiles]
    /\ ret = RunStart

SpecRun == RunInit /\ [][RunNext]_vars

-----------------------------------------------------------------------------
(* Claims about the run *)

DuplicateOrderError == "ValueError: Family order list contains duplicates"

\* C5: an order with a repeated token makes parse_family_order fail with the
\* duplicate-entry error before any matrix computation: get_preordered_matrix is
\* never entered and no matrix is printed; an order without a repeated token is
\* returned unchanged, in file order.
C5_DuplicateOrderFailsFirst ==
    /\ (pc = "failed" /\ ret.raised = DuplicateOrderError)
           => (ret.abs_pres_matrix = None /\ ret.stdout = <<>>)
    /\ (args.family_order.given /\ ~IsInjective(args.family_order.tokens))
           => /\ pc \notin {"get_preordered_matrix", "get_absence_presence_matrix",
                            "print", "exit"}
              /\ ret.abs_pres_matrix = None
              /\ ret.stdout = <<>>
    /\ pc \in {"get_preordered_matrix", "print", "exit"} /\ args.family_order.given
           => ret.order_of_families = args.family_order.tokens

\* the order "2,1,2" was refused after the families were named
C5_Witness ==
    /\ pc = "failed"
    /\ ret.raised = DuplicateOrderError
    /\ args.family_order.tokens = <<<<"2">>, <<"1">>, <<"2">>>>
    /\ Len(ret.named_families) = 2

\* C10: the cutoff given with -c/--cutoff selects the network files that are merged:
\* exactly the files named *_c<cutoff to two decimals>.network.
C10_UserCutoffSelectsFiles ==
    pc = "get_connected_from_df" =>
        ret.networks_merged
            = CombineNetworks(RowsOfMatching(ListingsOf(ret.result_dirs), args.cutoff))

-----------------------------------------------------------------------------
(* make_abs_pres.py: get_families                                           *)

HeaderMissing == "ValueError: Header line of file missing."

TwoColumns == "ValueError: Cluster file must contain two columns."

CLUSTER_COLUMNS == 2

\* the mutant of ClusterRow: a row of more than two fields is read as well
ClusterRowAtLeastTwo(st, text) ==
    LET line == Split(RStrip(text), TAB)
    IN  IF Len(line) < CLUSTER_COLUMNS
        THEN [st EXCEPT !.error = TwoColumns, !.count = Len(line)]
        ELSE [st EXCEPT !.families = AddToSet(@, line[2], line[1])]

\* lines 33-43 for one line read from the file
ClusterRow(st, text) ==
    LET line == Split(RStrip(text), TAB)
    IN  IF Len(line) # CLUSTER_COLUMNS
        THEN [st EXCEPT !.error = TwoColumns, !.count = Len(line)]
        ELSE [st EXCEPT !.families = AddToSet(@, line[2], line[1])]

\* the while loop of lines 32-44, stopped by the first error
RECURSIVE ClusterRows(_, _)
ClusterRows(lines, st) ==
    IF lines = <<>> \/ st.error # "" THEN st
    ELSE ClusterRows(Tail(lines), ClusterRow(st, Head(lines)))

\* lines 18-44.  Nothing is returned: families is the caller's dict as the call
\* leaves it, where and count are the file name and the field count the message
\* of the error carries.
make_abs_pres_get_families(cluster_file, families) ==
    LET first == IF cluster_file.lines = <<>> THEN <<>> ELSE Head(cluster_file.lines)
    IN  IF ~StartsWith(first, <<"#">>)
        THEN [raised |-> HeaderMissing, where |-> cluster_file.name, count |-> 0,
              families |-> families]
        ELSE LET st == ClusterRows(Tail(cluster_file.lines),
                                   [families |-> families, error |-> "", count |-> 0])
             IN  [raised |-> st.error,
                  where |-> IF st.error = "" THEN <<>> ELSE cluster_file.name,
                  count |-> st.count, families |-> st.families]

-----------------------------------------------------------------------------
(* Inputs of get_families: a cluster file is a header and rows of fields    *)

MaxClusterRows == 2

Fam_1 == <<"1">>
Fam_2 == <<"2">>
Fam_10 == <<"1", "0">>

ClusterHeader == <<<<"#", "c">>, <<"f">>>>

ClusterDataRows ==
    { <<Id_a, Fam_1>>, <<Id_b, Fam_1>>, <<Id_a, Fam_2>>, <<Id_c, Fam_10>>,
      <<Id_a>>, <<Id_a, Fam_1, F_tax>>, <<Id_b, Fam_2, <<>>>>, <<<<>>>> }

ClusterTables ==
    {<<>>} \cup {h \o rows : h \in {<<>>, <<ClusterHeader>>},
                             rows \in SeqsUpTo(ClusterDataRows, MaxClusterRows)}

FamiliesBefore ==
    {<<>>, <<[k |-> Fam_1, v |-> {Id_c}]>>,
     <<[k |-> Fam_2, v |-> {Id_a}], [k |-> Fam_1, v |-> {Id_a}]>>}

ClusterFileName == <<"m", ".", "t", "s", "v">>

ClusterFileInit ==
    /\ pc = "get_families"
    /\ args \in [table : ClusterTables, families : FamiliesBefore]
    /\ ret = None

\* the call get_families(cluster_file, families): the caller's dict is args.families;
\* before is the caller's dict as it was when the call was made
CallGetFamilies ==
    /\ pc = "get_families"
    /\ LET r == make_abs_pres_get_families([name |-> ClusterFileName,
                                            lines |-> FileOf(args.table)], args.families)
       IN  /\ args' = [args EXCEPT !.families = r.families]
           /\ ret' = [raised |-> r.raised, where |-> r.where, count |-> r.count,
                      before |-> args.families]
    /\ pc' = "families_done"

ClusterFileNext == CallGetFamilies

SpecClusterFile == ClusterFileInit /\ [][ClusterFileNext]_vars

-----------------------------------------------------------------------------
(* make_abs_pres.py: bigscape_to_matrix                                     *)

\* "*_clustering_c.{:.2f}.tsv".format(cutoff): what follows the leading *
ClusterNamePattern(cutoff) ==
    <<"_", "c", "l", "u", "s", "t", "e", "r", "i", "n", "g", "_", "c", ".">>
        \o Format2f(cutoff) \o <<".", "t", "s", "v">>

MultipleClusterings == "ValueError: Multiple clustering files in directory"

\* the mutant of ScanClusterDir: a second clustering file is passed over
RECURSIVE ScanClusterDirFirstOnly(_, _, _, _)
ScanClusterDirFirstOnly(entries, dir_name, pattern, st) ==
    IF entries = <<>> \/ st.error # "" THEN st
    ELSE LET entry == Head(entries)
         IN  IF entry.is_file /\ PathMatch(entry.name, pattern) /\ ~st.clusters_found
             THEN LET r == make_abs_pres_get_families(
                               [name |-> entry.name, lines |-> entry.content],
                               st.families)
                  IN  ScanClusterDirFirstOnly(Tail(entries), dir_name, pattern,
                                              [families |-> r.families,
                                               clusters_found |-> r.raised = "",
                                               error |-> r.raised, where |-> r.where])
             ELSE ScanClusterDirFirstOnly(Tail(entries), dir_name, pattern, st)

\* lines 121-128 over the entries of one result directory still to visit
RECURSIVE ScanClusterDir(_, _, _, _)
ScanClusterDir(entries, dir_name, pattern, st) ==
    IF entries = <<>> \/ st.error # "" THEN st
    ELSE LET entry == Head(entries)
         IN  IF entry.is_file /\ PathMatch(entry.name, pattern)
             THEN IF ~st.clusters_found
                  THEN LET r == make_abs_pres_get_families(
                                    [name |-> entry.name, lines |-> entry.content],
                                    st.families)
                       IN  ScanClusterDir(Tail(entries), dir_name, pattern,
                                          [families |-> r.families,
                                           clusters_found |-> r.raised = "",
                                           error |-> r.raised, where |-> r.where])
                  ELSE [st EXCEPT !.error = MultipleClusterings, !.where = dir_name]
             ELSE ScanClusterDir(Tail(entries), dir_name, pattern, st)

\* lines 118-131 over the result directories still to visit; a directory without a
\* clustering file is passed over (the check of lines 130-131 is commented out)
RECURSIVE ScanClusterDirs(_, _, _)
ScanClusterDirs(result_dirs, pattern, st) ==
    IF result_dirs = <<>> \/ st.error # "" THEN st
    ELSE ScanClusterDirs(Tail(result_dirs), pattern,
                         ScanClusterDir(Head(result_dirs).content, Head(result_dirs).name,
                                        pattern, [st EXCEPT !.clusters_found = FALSE]))

\* int(s) is defined for the labels made of decimal digits; the labels of the model
\* carry no sign, blank or underscore
IsIntLiteral(s) == s # <<>> /\ \A i \in 1..Len(s) : s[i] \in Range(Digits)

RECURSIVE StrToInt(_)
StrToInt(s) ==
    IF s = <<>> THEN 0
    ELSE 10 * StrToInt(SubSeq(s, 1, Len(s) - 1)) + (Ord(s[Len(s)]) - Ord("0"))

\* the mutant of InsertByInt: labels compared as strings
RECURSIVE InsertByText(_, _)
InsertByText(sorted, label) ==
    IF sorted = <<>> THEN <<label>>
    ELSE IF ~StrLess(label, Head(sorted))
         THEN <<Head(sorted)>> \o InsertByText(Tail(sorted), label)
         ELSE <<label>> \o sorted

\* sorted(keys, key=int): by value, labels of one value in their input order
RECURSIVE InsertByInt(_, _)
InsertByInt(sorted, label) ==
    IF sorted = <<>> THEN <<label>>
    ELSE IF StrToInt(Head(sorted)) <= StrToInt(label)
         THEN <<Head(sorted)>> \o InsertByInt(Tail(sorted), label)
         ELSE <<label>> \o sorted

RECURSIVE SortedByInt(_)
SortedByInt(labels) ==
    IF labels = <<>> THEN <<>>
    ELSE InsertByInt(SortedByInt(SubSeq(labels, 1, Len(labels) - 1)), labels[Len(labels)])

\* lines 142-145 for the sorted items still to write
RECURSIVE TabRows(_, _, _)
TabRows(items, families_with_clusters, all_families) ==
    IF items = <<>> THEN <<>>
    ELSE <<NL>> \o Head(items).k \o <<TAB>>
            \o Join([j \in 1..Len(all_families) |->
                        IntToStr(Cardinality(Head(items).v
                                    \cap DictGet(families_with_clusters, all_families[j])))],
                    <<TAB>>)
            \o TabRows(Tail(items), families_with_clusters, all_families)

NoMatrix(message, where) ==
    [raised |-> message, where |-> where, text |-> <<>>,
     families_with_clusters |-> <<>>, genomes_to_clusters |-> <<>>, stderr |-> <<>>]

\* lines 83-147 on the listing of the base directory: text is the string returned,
\* where the name an error message carries; the two dicts are the locals the string
\* is made from
bigscape_to_matrix(network_result_dir, cutoff) ==
    LET scan == ScanBase(network_result_dir,
                         [all_networks |-> <<>>, result_dirs |-> <<>>, error |-> ""])
    IN  IF scan.error # "" THEN NoMatrix(scan.error, <<>>)
        ELSE IF scan.all_networks = <<>> THEN NoMatrix("IOError: No summary file found.", <<>>)
        ELSE IF scan.result_dirs = <<>> THEN NoMatrix("IOError: No results found.", <<>>)
        ELSE LET found == ScanClusterDirs(scan.result_dirs, ClusterNamePattern(cutoff),
                                          [families |-> <<>>, clusters_found |-> FALSE,
                                           error |-> "", where |-> <<>>])
                 families_with_clusters == found.families
             IN  IF found.error # "" THEN NoMatrix(found.error, found.where)
                 ELSE IF \E f \in KeySet(families_with_clusters) : ~IsIntLiteral(f)
                 THEN NoMatrix("ValueError: invalid literal for int()", <<>>)
                 ELSE LET all_families == SortedByInt(DictKeys(families_with_clusters))
                          parsed == match_clusters_to_genomes(scan.all_networks[1].content)
                      IN  IF parsed.raised # "" THEN NoMatrix(parsed.raised, <<>>)
                          ELSE [raised |-> "", where |-> <<>>,
                                text |-> NAMES \o <<TAB>> \o Join(all_families, <<TAB>>)
                                           \o TabRows(SortedItems(parsed.value),
                                                      families_with_clusters, all_families),
                                families_with_clusters |-> families_with_clusters,
                                genomes_to_clusters |-> parsed.value,
                                stderr |-> parsed.stderr]

-----------------------------------------------------------------------------
(* Inputs of bigscape_to_matrix *)

MaxResultDirs == 2

ClusterFile(tag, cutoff_text, table) ==
    [name |-> tag \o <<"_", "c", "l", "u", "s", "t", "e", "r", "i", "n", "g", "_", "c", ".">>
                  \o cutoff_text \o <<".", "t", "s", "v">>,
     is_file |-> TRUE, content |-> FileOf(table)]

Cut030 == <<"0", ".", "3", "0">>
Cut050 == <<"0", ".", "5", "0">>

Cl_m30 == ClusterFile(<<"m">>, Cut030, <<ClusterHeader, <<Id_a, Fam_2>>, <<Id_b, Fam_10>>>>)
Cl_n30 == ClusterFile(<<"n">>, Cut030, <<ClusterHeader, <<Id_c, Fam_2>>, <<Id_b, Fam_1>>>>)
Cl_m50 == ClusterFile(<<"m">>, Cut050, <<ClusterHeader, <<Id_a, Fam_1>>>>)
Cl_bare30 == ClusterFile(<<"h">>, Cut030, <<<<Id_a, Fam_1>>>>)
Cl_short30 == ClusterFile(<<"s">>, Cut030, <<ClusterHeader, <<Id_a, Fam_1>>, <<Id_b>>>>)
Cl_word30 == ClusterFile(<<"w">>, Cut030, <<ClusterHeader, <<Id_a, <<"x">>>>>>)

ClusterListings ==
    { <<>>, <<Cl_m30>>, <<Cl_n30>>, <<Cl_m50>>, <<Cl_m50, Cl_m30>>, <<Cl_m30, Cl_n30>>,
      <<Cl_bare30, Cl_m30>>, <<Cl_short30>>, <<Cl_word30>> }

ResultTrees ==
    {s \o DirsOf(l) : s \in SummaryParts, l \in SeqsUpTo(ClusterListings, MaxResultDirs)}

BigscapeInit ==
    /\ pc = "bigscape_to_matrix"
    /\ args \in [network_result_dir : ResultTrees, cutoff : Cutoffs]
    /\ ret = None

CallBigscapeToMatrix ==
    /\ pc = "bigscape_to_matrix"
    /\ ret' = bigscape_to_matrix(args.network_result_dir, args.cutoff)
    /\ pc' = "bigscape_done"
    /\ UNCHANGED args

BigscapeNext == CallBigscapeToMatrix

SpecBigscape == BigscapeInit /\ [][BigscapeNext]_vars

-----------------------------------------------------------------------------
(* The serialized matrix of the three variants *)

SerializedInit == MatrixInit \/ BigscapeInit

SerializedNext == MatrixNext \/ BigscapeNext

SpecSerialized == SerializedInit /\ [][SerializedNext]_vars

CsvReturned == pc \in {"heuristic_done", "preordered_done"} /\ ret.raised = ""

TabReturned == pc = "bigscape_done" /\ ret.raised = ""

\* a row of the document: a name and its cells, comma-joined in the csv variants;
\* in the tab variant the name is followed by a tab and the tab-joined cells
DocumentRow(name, cells, csv) ==
    IF csv THEN Join(<<name>> \o cells, <<",">>)
    ELSE name \o <<TAB>> \o Join(cells, <<TAB>>)

\* the document the claim describes for the family names in header order
Document(names, families, genomes, csv) ==
    LET index == SortedStrings(KeySet(genomes))
    IN  Join(<<DocumentRow(NAMES, names, csv)>>
                \o [i \in 1..Len(index) |->
                       DocumentRow(index[i],
                                   [j \in 1..Len(names) |->
                                       IntToStr(Cardinality(DictGet(genomes, index[i])
                                                   \cap DictGet(families, names[j])))],
                                   csv)],
             <<NL>>)

\* the tab variant's document for some header order of all the families
IsTabDocument(text, families, genomes) ==
    \E p \in LeafOrders(Len(families)) :
        text = Document([i \in 1..Len(families) |-> families[p[i]].k], families, genomes, FALSE)

\* C11 as stated: the serialized matrix of every variant is the header row (#NAMES,
\* then the family names), then one row per genome in lexicographic order of genome
\* name (the name, then its counts in header order), the rows joined by newlines and
\* no newline after the last row.
C11_NoTrailingNewlineAnywhere ==
    /\ (CsvReturned /\ Len(ret.value.columns) >= 1) =>
           ret.text = Document(ret.value.columns, args.families_with_names,
                               args.clusters_in_genomes, TRUE)
    /\ TabReturned =>
           IsTabDocument(ret.text, ret.families_with_clusters, ret.genomes_to_clusters)

\* C11 amended: as above, but the comma-separated documents of
\* get_absence_presence_matrix and get_preordered_matrix (with at least one column)
\* end with one newline after the last row; only the tab-separated document of
\* bigscape_to_matrix has no trailing newline.
C11_SerializedMatrix ==
    /\ (CsvReturned /\ Len(ret.value.columns) >= 1) =>
           ret.text = Document(ret.value.columns, args.families_with_names,
                               args.clusters_in_genomes, TRUE) \o <<NL>>
    /\ TabReturned =>
           /\ IsTabDocument(ret.text, ret.families_with_clusters, ret.genomes_to_clusters)
           /\ ret.text[Len(ret.text)] # NL

\* a comma-separated matrix of two families and two genomes was returned
C11_Witness ==
    /\ CsvReturned
    /\ Len(ret.value.columns) = 2
    /\ Len(ret.value.index) = 2
    /\ ret.text[Len(ret.text)] = NL

-----------------------------------------------------------------------------
(* Claims about bigscape_to_matrix *)

NoSummaryFile == "IOError: No summary file found."

NoResults == "IOError: No results found."

MultipleSummaries == "ValueError: Multiple summary files found."

TreeErrors == {NoSummaryFile, NoResults, MultipleSummaries, MultipleClusterings}

\* the summary files and the subdirectories of the base directory, by position
SummariesIn(listing) ==
    {i \in 1..Len(listing) : listing[i].is_file /\ SummaryMatch(listing[i].name)}

SubDirsIn(listing) == {i \in 1..Len(listing) : ~listing[i].is_file}

\* the clustering files of a result directory for the cutoff, by position
ClusteringsIn(dir, cutoff) ==
    {i \in 1..Len(dir.content) :
        /\ dir.content[i].is_file
        /\ EndsWith(dir.content[i].name, ClusterNamePattern(cutoff))}

CrowdedDirs(listing, cutoff) ==
    {i \in SubDirsIn(listing) : Cardinality(ClusteringsIn(listing[i], cutoff)) > 1}

BigscapeDone == pc = "bigscape_done"

\* C12 as stated: each of the four cases fails and returns no matrix, and a case that
\* is the only one to apply fails with its own error: no summary file, no
\* subdirectory, several summary files, several clustering files for the cutoff in
\* one subdirectory; with one summary file, a subdirectory and at most one clustering
\* file per subdirectory none of the four errors is raised.
C12_EachCaseItsError ==
    BigscapeDone =>
        LET listing == args.network_result_dir
            crowded == CrowdedDirs(listing, args.cutoff)
            none == SummariesIn(listing) = {}
            several == Cardinality(SummariesIn(listing)) > 1
            bare == SubDirsIn(listing) = {}
        IN  /\ (none /\ ~bare) => ret.raised = NoSummaryFile
            /\ (bare /\ ~none /\ ~several) => ret.raised = NoResults
            /\ (several /\ ~bare /\ crowded = {}) => ret.raised = MultipleSummaries
            /\ (crowded # {} /\ ~none /\ ~several) =>
                   /\ ret.raised = MultipleClusterings
                   /\ \E i \in crowded : ret.where = listing[i].name
            /\ (none \/ several \/ bare \/ crowded # {}) =>
                   (ret.raised # "" /\ ret.text = <<>>)
            /\ (~none /\ ~several /\ ~bare /\ crowded = {}) => ret.raised \notin TreeErrors

\* the first clustering file of a directory, alone, is read without error
FirstClusteringReads(dir, cutoff) ==
    LET found == ClusteringsIn(dir, cutoff)
    IN  found # {} =>
            LET first == CHOOSE i \in found : \A j \in found : i <= j
            IN  make_abs_pres_get_families([name |-> dir.content[first].name,
                                            lines |-> dir.content[first].content],
                                           <<>>).raised = ""

\* C12 amended: the cases are checked in this order and the first that applies gives
\* the error: several summary files; no summary file; no subdirectory; then, going
\* through the subdirectories in order, the first with several clustering files for
\* the cutoff gives "Multiple clustering files in directory <name>" provided the
\* first clustering file of that and of every earlier subdirectory is read without
\* error (otherwise that file's error is raised).  No matrix is returned in any of
\* these cases, and with one summary file, a subdirectory and at most one clustering
\* file per subdirectory none of the four errors is raised.
C12_FirstCaseGivesError ==
    BigscapeDone =>
        LET listing == args.network_result_dir
            crowded == CrowdedDirs(listing, args.cutoff)
            one_summary == Cardinality(SummariesIn(listing)) = 1
        IN  /\ Cardinality(SummariesIn(listing)) > 1 => ret.raised = MultipleSummaries
            /\ SummariesIn(listing) = {} => ret.raised = NoSummaryFile
            /\ (one_summary /\ SubDirsIn(listing) = {}) => ret.raised = NoResults
            /\ (one_summary /\ crowded # {}) =>
                   LET d == CHOOSE i \in crowded : \A j \in crowded : i <= j
                   IN  /\ ret.raised # ""
                       /\ (\A i \in SubDirsIn(listing) :
                              i <= d => FirstClusteringReads(listing[i], args.cutoff))
                              => /\ ret.raised = MultipleClusterings
                                 /\ ret.where = listing[d].name
            /\ ret.raised # "" => ret.text = <<>>
            /\ (one_summary /\ SubDirsIn(listing) # {} /\ crowded = {})
                   => ret.raised \notin TreeErrors

\* the second subdirectory holds two clustering files for the cutoff
C12_Witness ==
    /\ BigscapeDone
    /\ ret.raised = MultipleClusterings
    /\ ret.where = <<"d", "2">>
    /\ Cardinality(SummariesIn(args.network_result_dir)) = 1


NoClusterings == "ValueError: No clustering files in directory"

\* C13: bigscape_to_matrix fails with "No clustering files in directory <name>"
\* whenever a result subdirectory holds no clustering file for the cutoff, and
\* returns no matrix then.
C13_MissingClusteringRaises ==
    (BigscapeDone /\ Cardinality(SummariesIn(args.network_result_dir)) = 1) =>
        \A i \in SubDirsIn(args.network_result_dir) :
            ClusteringsIn(args.network_result_dir[i], args.cutoff) = {}
                => /\ ret.raised # ""
                   /\ ret.text = <<>>
                   /\ (\A j \in SubDirsIn(args.network_result_dir) :
                          /\ Cardinality(ClusteringsIn(args.network_result_dir[j],
                                                       args.cutoff)) <= 1
                          /\ FirstClusteringReads(args.network_result_dir[j], args.cutoff))
                          => ret.raised = NoClusterings

-----------------------------------------------------------------------------
(* Header and row validation of the two kinds of input file *)

ParsersInit == SummaryInit \/ ClusterFileInit

ParsersNext == SummaryNext \/ ClusterFileNext

SpecParsers == ParsersInit /\ [][ParsersNext]_vars

SummaryHeaderMissing == "ValueError: Header line of summary file missing."

ClusterHeaderPresent == args.table # <<>> /\ StartsWith(args.table[1][1], <<"#">>)

\* the data rows of the cluster table that do not leave exactly two fields
OddClusterRows ==
    {i \in 2..Len(args.table) : Len(StrippedRow(args.table[i])) # CLUSTER_COLUMNS}

\* C14: map_clusters_to_names and match_clusters_to_genomes fail with the
\* missing-header error exactly when the first line of the annotation file does not
\* start with "BGC"; make_abs_pres.get_families fails with the missing-header error
\* exactly when the first line of the cluster file does not start with "#", and with
\* the column-count error at the first data row that does not split into exactly two
\* tab-separated fields; a failing call returns no mapping.
C14_HeaderAndRowValidation ==
    /\ SummaryDone =>
           /\ ret.raised = SummaryHeaderMissing <=> ~HeaderPresent
           /\ ret.raised # "" => ret.value = None
    /\ pc = "families_done" =>
           /\ ret.raised = HeaderMissing <=> ~ClusterHeaderPresent
           /\ ret.raised = TwoColumns <=> (ClusterHeaderPresent /\ OddClusterRows # {})
           /\ ret.raised = TwoColumns =>
                  LET first == CHOOSE i \in OddClusterRows : \A j \in OddClusterRows : i <= j
                  IN  ret.count = Len(StrippedRow(args.table[first]))
           /\ ret.raised \in {"", HeaderMissing, TwoColumns}
           /\ ret.raised # "" => ret.where = ClusterFileName

\* a cluster file refused at a row of three fields that follows a row of two
C14_Witness ==
    /\ pc = "families_done"
    /\ ret.raised = TwoColumns
    /\ ret.count = 3
    /\ Len(args.table) = 3
    /\ Len(args.table[2]) = 2

-----------------------------------------------------------------------------
(* Inputs of get_families (make_abs_pres_networkx.py) *)

MaxComponents == 2

Name_T == <<"T">>

\* a class whose text starts like a numbered name
Class_2N == <<"2", "_", "N">>

CompoundFamilies ==
    { [clusters |-> {Id_a}, compound_class |-> Type_N],
      [clusters |-> {Id_b}, compound_class |-> Type_P],
      [clusters |-> {Id_b, Id_BGC1}, compound_class |-> Type_P],
      [clusters |-> {Id_c, Id_BGC1, Id_BGC2}, compound_class |-> Type_N],
      [clusters |-> {Id_a, Id_BGC2}, compound_class |-> Name_Tm],
      [clusters |-> {Id_c}, compound_class |-> Class_2N] }

BgcNames ==
    { <<[k |-> Id_BGC1, v |-> Name_Tm], [k |-> Id_BGC2, v |-> Name_T]>>,
      <<[k |-> Id_BGC1, v |-> Name_Tm], [k |-> Id_BGC2, v |-> Name_Tm]>>,
      <<[k |-> Id_BGC1, v |-> Type_P], [k |-> Id_BGC2, v |-> Name_T]>>,
      <<[k |-> Id_BGC1, v |-> Name_Tm]>> }

FamilyMembers == {Id_a, Id_b, Id_c, Id_BGC1, Id_BGC2}

FamiliesInit ==
    /\ pc = "name_families"
    /\ args \in [connected_families : SeqsUpTo(CompoundFamilies, MaxComponents),
                 bgc_names : BgcNames]
    /\ ret = None

\* member_order is the order in which the sets of clusters are iterated; the result
\* keeps it so that the names can be traced
CallNameFamilies ==
    /\ pc = "name_families"
    /\ \E member_order \in MemberOrders(FamilyMembers) :
          LET r == get_families(args.connected_families, args.bgc_names, member_order)
          IN  ret' = [raised |-> r.raised, value |-> r.value, member_order |-> member_order]
    /\ pc' = "named"
    /\ UNCHANGED args

FamiliesNext == CallNameFamilies

SpecFamilies == FamiliesInit /\ [][FamiliesNext]_vars

-----------------------------------------------------------------------------
(* Claims about get_families (make_abs_pres_networkx.py) *)

FamiliesNamed == pc = "named" /\ ret.raised = ""

Size(family) == Cardinality(family.clusters)

\* the ranking of the families: larger first, equal sizes in input order
IsRanking(p, families) ==
    \A i, j \in 1..Len(families) :
        i < j => \/ Size(families[p[i]]) > Size(families[p[j]])
                 \/ (Size(families[p[i]]) = Size(families[p[j]]) /\ p[i] < p[j])

\* C15: get_families ranks the families by descending cardinality with ranks 1..n,
\* families of equal size in input order; the family of rank i gets a name starting
\* with "<i>_<compound_class>", and the value under that name is exactly that
\* family's cluster set.
C15_RankedNames ==
    FamiliesNamed =>
        LET families == args.connected_families
        IN  /\ Len(ret.value) = Len(families)
            /\ IsDict(ret.value)
            /\ \E p \in LeafOrders(Len(families)) :
                  /\ IsRanking(p, families)
                  /\ \A i \in 1..Len(families) :
                        /\ StartsWith(ret.value[i].k,
                                      IntToStr(i) \o <<"_">> \o families[p[i]].compound_class)
                        /\ ret.value[i].v = families[p[i]].clusters

\* two families of one size and of different classes were named
C15_Witness ==
    /\ FamiliesNamed
    /\ Len(ret.value) = 2
    /\ Size(args.connected_families[1]) = Size(args.connected_families[2])
    /\ args.connected_families[1].compound_class # args.connected_families[2].compound_class
    /\ StartsWith(ret.value[2].k, <<"2", "_", "T", "m">>)


\* the name after the first k reference members, taken in the order they are visited
RECURSIVE Accumulated(_, _, _)
Accumulated(base, refs, k) ==
    IF k = 0 THEN base
    ELSE LET so_far == Accumulated(base, refs, k - 1)
             display == DictGet(args.bgc_names, refs[k])
         IN  IF Contains(so_far, display) THEN so_far ELSE so_far \o <<"_">> \o display

\* the reference members of a set of clusters in the order they were visited
RefsOf(clusters) ==
    SelectSeq(ret.member_order, LAMBDA cl : cl \in clusters /\ StartsWith(cl, BGC))

\* C16: while a family is named, for each member with the reference prefix
\* "_<display-name>" is appended to the running name if and only if the display
\* name is not already a substring of the name so far; hence the display name of
\* every reference member is a substring of the final name, and members without the
\* prefix add nothing.
C16_SuffixUnlessPresent ==
    FamiliesNamed =>
        LET families == args.connected_families
        IN  \E p \in LeafOrders(Len(families)) :
                /\ IsRanking(p, families)
                /\ \A i \in 1..Len(families) :
                      LET base == IntToStr(i) \o <<"_">> \o families[p[i]].compound_class
                          refs == RefsOf(families[p[i]].clusters)
                      IN  /\ ret.value[i].k = Accumulated(base, refs, Len(refs))
                          /\ \A k \in 1..Len(refs) :
                                Contains(ret.value[i].k, DictGet(args.bgc_names, refs[k]))
                          /\ refs = <<>> => ret.value[i].k = base

\* two reference members share the display name "Tm": the name holds it once
C16_Witness ==
    /\ FamiliesNamed
    /\ Len(ret.value) >= 1
    /\ ret.value[1].v = {Id_c, Id_BGC1, Id_BGC2}
    /\ ret.value[1].k = <<"1", "_", "N", "_", "T", "m">>
    /\ DictGet(args.bgc_names, Id_BGC2) = Name_Tm

-----------------------------------------------------------------------------
(* The three maps of map_clusters_to_names *)

\* a table with its header whose data rows all have seven fields and lose nothing
\* when the trailing whitespace of their line is stripped
WellFormed ==
    /\ HeaderPresent
    /\ \A i \in 2..Len(args.table) :
          Len(args.table[i]) = EXPECTED_COLUMNS /\ StrippedRow(args.table[i]) = args.table[i]

ReferenceRows == {i \in 2..Len(args.table) : StartsWith(args.table[i][1], BGC)}

QueryRows == (2..Len(args.table)) \ ReferenceRows

\* the last row of the table that carries the cluster id of row i
IsLastOfItsId(i) ==
    \A j \in 2..Len(args.table) : args.table[j][1] = args.table[i][1] => j <= i

\* C17: for a well-formed annotation table map_clusters_to_names returns three maps:
\* a row whose id starts with "BGC" adds only reference id -> sanitized third field
\* (the phrase " biosynthetic gene cluster" removed) to the display-name map; any
\* other row adds its id to the set of the genome named by the sanitized sixth field
\* and nothing to the display-name map; every row records id -> fifth field in the
\* type map.  So no genome set holds a reference id, every display-name key is a
\* reference id and the type map's keys are all the ids of the table.
C17_RowsFillTheirMaps ==
    (pc = "names_done" /\ WellFormed) =>
        /\ ret.raised = ""
        /\ LET names == ret.value.bgcs_with_names
               genomes == ret.value.genomes_with_clusters
               types == ret.value.clusters_with_types
           IN  /\ IsDict(names) /\ IsDict(genomes) /\ IsDict(types)
               /\ KeySet(names) = {args.table[i][1] : i \in ReferenceRows}
               /\ \A i \in ReferenceRows :
                     IsLastOfItsId(i) =>
                         DictGet(names, args.table[i][1])
                             = ClaimedName(Replace(args.table[i][3], BiosyntheticPhrase, <<>>))
               /\ KeySet(genomes) = {ClaimedName(args.table[i][6]) : i \in QueryRows}
               /\ \A g \in KeySet(genomes) :
                     DictGet(genomes, g)
                         = {args.table[i][1] : i \in {j \in QueryRows :
                                                        ClaimedName(args.table[j][6]) = g}}
               /\ KeySet(types) = {args.table[i][1] : i \in 2..Len(args.table)}
               /\ \A i \in 2..Len(args.table) :
                     IsLastOfItsId(i) => DictGet(types, args.table[i][1]) = args.table[i][5]
               /\ \A g \in KeySet(genomes) : \A cl \in DictGet(genomes, g) : ~StartsWith(cl, BGC)
               /\ \A cl \in KeySet(names) : StartsWith(cl, BGC)

\* a table of a query row and a reference row was read
C17_Witness ==
    /\ pc = "names_done"
    /\ WellFormed
    /\ ReferenceRows # {}
    /\ QueryRows # {}
    /\ ret.raised = ""
    /\ DictGet(ret.value.bgcs_with_names, Id_BGC1) = Name_Tm

-----------------------------------------------------------------------------
(* What a call leaves of the structures it was given *)

\* the data rows get_families reads before it returns or fails
RowsRead ==
    IF ~ClusterHeaderPresent THEN {}
    ELSE {i \in 2..Len(args.table) : \A j \in OddClusterRows : i < j}

-----------------------------------------------------------------------------
(* The pair key of the network merger *)

\* C19: the output of merge_all_bigscape_networks keeps exactly one row per key, and
\* the raw distance of that row is the mean over exactly the input rows with the
\* same (first id, second id): two different id pairs whose concatenations coincide,
\* as ("ab","c") and ("a","bc"), share neither a row nor an average.
C19_MeanOverSameIdPair ==
    Merged =>
        LET rows == RowsOfMatching(args.results, args.bigscape_cutoff)
        IN  /\ \A i \in 1..Len(rows) :
                  Cardinality({j \in 1..Len(ret.value) :
                                  /\ ret.value[j].c1 = rows[i].c1
                                  /\ ret.value[j].c2 = rows[i].c2}) = 1
            /\ \A j \in 1..Len(ret.value) :
                  LET same == {i \in 1..Len(rows) :
                                  rows[i].c1 = ret.value[j].c1 /\ rows[i].c2 = ret.value[j].c2}
                  IN  ret.value[j].dist.num * Cardinality(same)
                          = ret.value[j].dist.den * SumDist(rows, same)

-----------------------------------------------------------------------------
(* Column order under an explicit family order *)

\* the names are those of n ranked families: one name for each rank 1..n
AreRankedNames(families_with_names) ==
    \A i \in 1..Len(families_with_names) :
        Cardinality({x \in KeySet(families_with_names) :
                        StartsWith(x, IntToStr(i) \o <<"_">>)}) = 1

\* the order is a permutation of "1".."n"
IsRankPermutation(family_order, n) ==
    /\ Len(family_order) = n
    /\ Range(family_order) = {IntToStr(i) : i \in 1..n}

\* C20: for the names of n ranked families and an order that is a permutation of
\* "1".."n", get_preordered_matrix puts in column k the one family whose name starts
\* with token k followed by "_" (order ["2","1"] gives columns 2_test, 1_test), the
\* genome rows being in lexicographic order all the same.
C20_ColumnsFollowTokens ==
    (/\ pc = "preordered_done"
     /\ AreRankedNames(args.families_with_names)
     /\ IsRankPermutation(args.family_order, Len(args.families_with_names))) =>
        /\ ret.raised = ""
        /\ Len(ret.value.columns) = Len(args.family_order)
        /\ \A k \in 1..Len(args.family_order) :
              /\ ret.value.columns[k] \in KeySet(args.families_with_names)
              /\ StartsWith(ret.value.columns[k], args.family_order[k] \o <<"_">>)
        /\ Range(ret.value.index) = KeySet(args.clusters_in_genomes)
        /\ \A i, j \in 1..Len(ret.value.index) :
              i < j => StrLess(ret.value.index[i], ret.value.index[j])

\* the order 2, 1 on families listed as 1_t, 2_t, with genomes listed out of order
C20_Witness ==
    /\ pc = "preordered_done"
    /\ ret.raised = ""
    /\ args.family_order = <<<<"2">>, <<"1">>>>
    /\ DictKeys(args.families_with_names) = <<<<"1", "_", "t">>, <<"2", "_", "t">>>>
    /\ ret.value.columns = <<<<"2", "_", "t">>, <<"1", "_", "t">>>>
    /\ Len(ret.value.index) = 2
    /\ DictKeys(args.clusters_in_genomes) # ret.value.index

-----------------------------------------------------------------------------
(* The heuristic column order *)

\* C21: for every non-empty family mapping and genome mapping the columns of
\* get_absence_presence_matrix are a total order of the family names holding each
\* name once, the genome rows are in lexicographic order, and the cell (genome,
\* family) is the count of the pair whatever the column order.
C21_HeuristicOnlyReordersColumns ==
    (/\ pc = "heuristic_done"
     /\ args.families_with_names # <<>>
     /\ args.clusters_in_genomes # <<>>) =>
        /\ ret.raised = ""
        /\ Len(ret.value.columns) = Len(args.families_with_names)
        /\ Range(ret.value.columns) = KeySet(args.families_with_names)
        /\ ret.value.index = SortedStrings(KeySet(args.clusters_in_genomes))
        /\ \A j \in 1..Len(ret.value.columns) : \A i \in 1..Len(ret.value.index) :
              ret.value.data[j][i]
                  = Cardinality(DictGet(args.clusters_in_genomes, ret.value.index[i])
                                   \cap DictGet(args.families_with_names, ret.value.columns[j]))

-----------------------------------------------------------------------------
(* make_abs_pres_mibig.py: map_clusters_to_names, bigscape_to_matrix        *)

\* lines 67-84 of make_abs_pres_mibig.py for one line read from the file
MibigNamesRow(st, text) ==
    LET line == Split(RStrip(text), TAB)
        flagged == [st EXCEPT !.wrong_line_format = @ \/ Len(line) # EXPECTED_COLUMNS]
        cluster == line[1]
    IN  IF StartsWith(cluster, BGC)
        THEN IF Len(line) < 3 THEN [flagged EXCEPT !.error = "IndexError"]
             ELSE [flagged EXCEPT !.bgcs_with_names =
                      DictPut(@, cluster, Sanitize(Replace(line[3], BiosyntheticPhrase, <<>>)))]
        ELSE IF Len(line) < 6 THEN [flagged EXCEPT !.error = "IndexError"]
             ELSE [flagged EXCEPT
                      !.genomes_with_clusters = AddToSet(@, Sanitize(line[6]), cluster)]

RECURSIVE MibigRows(_, _)
MibigRows(lines, st) ==
    IF lines = <<>> \/ st.error # "" THEN st
    ELSE MibigRows(Tail(lines), MibigNamesRow(st, Head(lines)))

\* make_abs_pres_mibig.py, lines 47-91
mibig_map_clusters_to_names(summary_file) ==
    LET first == IF summary_file = <<>> THEN <<>> ELSE Head(summary_file)
    IN  IF ~StartsWith(first, BGC)
        THEN [raised |-> "ValueError: Header line of summary file missing.",
              value |-> None, stderr |-> <<>>]
        ELSE LET st == MibigRows(Tail(summary_file), ParseStart)
             IN  IF st.error # ""
                 THEN [raised |-> st.error, value |-> None, stderr |-> <<>>]
                 ELSE [raised |-> "",
                       value |-> [genomes_with_clusters |-> st.genomes_with_clusters,
                                  bgcs_with_names |-> st.bgcs_with_names],
                       stderr |-> IF st.wrong_line_format THEN <<FormatWarning>> ELSE <<>>]

\* "*_clustering_c{:.2f}.tsv".format(cutoff): what follows the leading *
MibigClusterNamePattern(cutoff) ==
    <<"_", "c", "l", "u", "s", "t", "e", "r", "i", "n", "g", "_", "c">>
        \o Format2f(cutoff) \o <<".", "t", "s", "v">>

\* lines 149-159 over the families still to name: a family of reference clusters
\* only is left out; member_order is the order in which a set is iterated
RECURSIVE MibigNameFamilies(_, _, _, _)
MibigNameFamilies(items, bgcs_to_names, member_order, named_families) ==
    IF items = <<>> THEN [raised |-> "", value |-> named_families]
    ELSE LET cluster_list == Head(items).v
         IN  IF \A found_cluster \in cluster_list : StartsWith(found_cluster, BGC)
             THEN MibigNameFamilies(Tail(items), bgcs_to_names, member_order, named_families)
             ELSE LET named == NameWithSuffixes(
                                   Head(items).k,
                                   SelectSeq(member_order, LAMBDA cl : cl \in cluster_list),
                                   bgcs_to_names)
                  IN  IF named.error # "" THEN [raised |-> named.error, value |-> None]
                      ELSE MibigNameFamilies(Tail(items), bgcs_to_names, member_order,
                                             DictPut(named_families, named.name, cluster_list))

\* the cluster ids of a families dict
MembersOf(families) == UNION {families[i].v : i \in 1..Len(families)}

\* make_abs_pres_mibig.py, lines 94-174
mibig_bigscape_to_matrix(network_result_dir, cutoff, member_order) ==
    LET scan == ScanBase(network_result_dir,
                         [all_networks |-> <<>>, result_dirs |-> <<>>, error |-> ""])
    IN  IF scan.error # "" THEN NoMatrix(scan.error, <<>>)
        ELSE IF scan.all_networks = <<>> THEN NoMatrix("IOError: No summary file found.", <<>>)
        ELSE IF scan.result_dirs = <<>> THEN NoMatrix("IOError: No results found.", <<>>)
        ELSE LET found == ScanClusterDirs(scan.result_dirs, MibigClusterNamePattern(cutoff),
                                          [families |-> <<>>, clusters_found |-> FALSE,
                                           error |-> "", where |-> <<>>])
                 parsed == mibig_map_clusters_to_names(scan.all_networks[1].content)
             IN  IF found.error # "" THEN NoMatrix(found.error, found.where)
                 ELSE IF parsed.raised # "" THEN NoMatrix(parsed.raised, <<>>)
                 ELSE LET named == MibigNameFamilies(found.families,
                                                     parsed.value.bgcs_with_names,
                                                     member_order, <<>>)
                      IN  IF named.raised # "" THEN NoMatrix(named.raised, <<>>)
                          ELSE LET all_families == SortedStrings(KeySet(named.value))
                               IN  [raised |-> "", where |-> <<>>,
                                    text |-> NAMES \o <<TAB>> \o Join(all_families, <<TAB>>)
                                               \o TabRows(SortedItems(
                                                              parsed.value.genomes_with_clusters),
                                                          named.value, all_families),
                                    families_with_clusters |-> named.value,
                                    genomes_to_clusters |-> parsed.value.genomes_with_clusters,
                                    stderr |-> parsed.stderr]


-----------------------------------------------------------------------------
(* The entry points: make_map_tree.py and the __main__ of make_abs_pres.py  *)
(* and make_abs_pres_mibig.py                                               *)

UnknownFormatCode == "ValueError: Unknown format code 'f' for object of type 'str'"

\* the errors that are instances of ValueError
ValueErrors ==
    {HeaderMissing, TwoColumns, MultipleClusterings, UnknownFormatCode,
     "ValueError: Multiple summary files found.",
     "ValueError: Header line of summary file missing.",
     "ValueError: invalid literal for int()"}

\* bigscape_to_matrix called with the cutoff as the text of sys.argv[2]: the scan of
\* the base directory comes first, then "{:.2f}".format(cutoff) raises ValueError
bigscape_to_matrix_text_cutoff(network_result_dir) ==
    LET scan == ScanBase(network_result_dir,
                         [all_networks |-> <<>>, result_dirs |-> <<>>, error |-> ""])
    IN  IF scan.error # "" THEN NoMatrix(scan.error, <<>>)
        ELSE IF scan.all_networks = <<>> THEN NoMatrix("IOError: No summary file found.", <<>>)
        ELSE IF scan.result_dirs = <<>> THEN NoMatrix("IOError: No results found.", <<>>)
        ELSE NoMatrix(UnknownFormatCode, <<>>)

\* the state of a run: failure is what bigscape_to_matrix raised, uncaught the
\* exception that ended the run, bound whether absence_presence_matrix is assigned
EntryStart ==
    [failure |-> "", caught |-> "", uncaught |-> "", bound |-> FALSE, matrix |-> <<>>,
     stdout |-> <<>>, stderr |-> <<>>, drawn |-> FALSE, status |-> 0]

\* what the try block leaves when bigscape_to_matrix gave r
AfterCall(r, on_success, on_value_error) ==
    IF r.raised = ""
    THEN /\ pc' = on_success
         /\ ret' = [ret EXCEPT !.bound = TRUE, !.matrix = r.text]
    ELSE IF r.raised \in ValueErrors
    THEN /\ pc' = on_value_error
         /\ ret' = [ret EXCEPT !.failure = r.raised, !.caught = r.raised]
    ELSE /\ pc' = "exited"
         /\ ret' = [ret EXCEPT !.failure = r.raised, !.uncaught = r.raised, !.status = 1]

\* the orders in which the clusters of the clustering files may be iterated
EntryMembers == {Id_a, Id_b, Id_BGC1}

\* make_map_tree.py, lines 21-25
MapTreeTry ==
    /\ pc = "make_map_tree"
    /\ IF args.mibig
       THEN \E member_order \in MemberOrders(EntryMembers) :
               AfterCall(mibig_bigscape_to_matrix(args.cluster_dir, args.cutoff, member_order),
                         "draw", "except")
       ELSE AfterCall(bigscape_to_matrix(args.cluster_dir, args.cutoff), "draw", "except")
    /\ UNCHANGED args

\* make_map_tree.py, lines 26-27
MapTreeExcept ==
    /\ pc = "except"
    /\ ret' = [ret EXCEPT !.stderr = Append(@, ret.caught)]
    /\ pc' = "draw"
    /\ UNCHANGED args

\* make_map_tree.py, line 29: the arguments are evaluated before the call, and
\* absence_presence_matrix is not assigned when the try block failed
MapTreeDraw ==
    /\ pc = "draw"
    /\ ret' = IF ret.bound THEN [ret EXCEPT !.drawn = TRUE]
              ELSE [ret EXCEPT !.uncaught = "NameError", !.status = 1]
    /\ pc' = "exited"
    /\ UNCHANGED args

\* lines 151-161 of make_abs_pres.py and 178-188 of make_abs_pres_mibig.py
MainTry ==
    /\ pc = "__main__"
    /\ IF args.argc \notin {2, 3}
       THEN /\ ret' = [ret EXCEPT !.stdout = <<"Please supply Bigscape result directory.">>,
                                  !.status = 1]
            /\ pc' = "exited"
       ELSE IF args.argc = 3
       THEN AfterCall(bigscape_to_matrix_text_cutoff(args.cluster_dir), "print", "main_except")
       ELSE IF args.mibig
       THEN \E member_order \in MemberOrders(EntryMembers) :
               AfterCall(mibig_bigscape_to_matrix(args.cluster_dir, DEFAULT_CUTOFF,
                                                  member_order),
                         "print", "main_except")
       ELSE AfterCall(bigscape_to_matrix(args.cluster_dir, DEFAULT_CUTOFF),
                      "print", "main_except")
    /\ UNCHANGED args

\* print(...) of line 161
MainPrint ==
    /\ pc = "print"
    /\ ret' = [ret EXCEPT !.stdout = Append(@, ret.matrix)]
    /\ pc' = "exited"
    /\ UNCHANGED args

\* lines 162-163: sys.stderr.write(err) is given the exception, not a string
MainExcept ==
    /\ pc = "main_except"
    /\ ret' = [ret EXCEPT !.uncaught = "TypeError", !.status = 1]
    /\ pc' = "exited"
    /\ UNCHANGED args

EntryNext ==
    \/ MapTreeTry
    \/ MapTreeExcept
    \/ MapTreeDraw
    \/ MainTry
    \/ MainPrint
    \/ MainExcept

-----------------------------------------------------------------------------
(* Inputs of the entry points *)

MibigFile(tag, table) ==
    [name |-> tag \o <<"_", "c", "l", "u", "s", "t", "e", "r", "i", "n", "g", "_", "c">>
                  \o Cut030 \o <<".", "t", "s", "v">>,
     is_file |-> TRUE, content |-> FileOf(table)]

Mb_k30 == MibigFile(<<"k">>, <<ClusterHeader, <<Id_a, Fam_1>>, <<Id_BGC1, Fam_1>>>>)
Mb_j30 == MibigFile(<<"j">>, <<ClusterHeader, <<Id_b, Fam_2>>>>)
Mb_bare30 == MibigFile(<<"h">>, <<<<Id_a, Fam_1>>>>)

EntryListings ==
    { <<>>, <<Cl_m30>>, <<Cl_bare30, Cl_m30>>, <<Cl_m30, Cl_n30>>,
      <<Mb_k30>>, <<Mb_k30, Mb_j30>>, <<Mb_bare30>> }

EntryTrees ==
    {s \o DirsOf(l) : s \in SummaryParts, l \in SeqsUpTo(EntryListings, MaxResultDirs)}

EntryInit ==
    /\ \/ /\ pc = "make_map_tree"
          /\ args \in [mibig : BOOLEAN, argc : {4}, cluster_dir : EntryTrees,
                       cutoff : Cutoffs]
       \/ /\ pc = "__main__"
          /\ args \in [mibig : BOOLEAN, argc : {1, 2, 3}, cluster_dir : EntryTrees,
                       cutoff : {DEFAULT_CUTOFF}]
    /\ ret = EntryStart

SpecEntry == EntryInit /\ [][EntryNext]_vars

-----------------------------------------------------------------------------
(* Claims about the entry points *)

\* C22: when bigscape_to_matrix raises a fatal error, the run ends reporting that
\* error's message: no other kind of failure replaces it, and make_cluster_tree is
\* not invoked after the failure.
C22_FailsWithOriginalError ==
    (pc = "exited" /\ ret.failure # "") =>
        /\ \/ ret.uncaught = ret.failure
           \/ ret.uncaught = "" /\ ret.failure \in Range(ret.stderr)
        /\ ~ret.drawn


-----------------------------------------------------------------------------
(* The names of get_families are distinct *)

\* the text before the first "_" of a name
RankText(name) == Split(name, "_")[1]

\* C23: the names built by get_families are pairwise distinct: for n families the
\* mapping has exactly n keys, the text before the first "_" of each name is a
\* decimal rank of 1..n that no other name has, and every family's cluster set is
\* the value of some name.
C23_NamesDistinct ==
    FamiliesNamed =>
        LET n == Len(args.connected_families)
        IN  /\ Cardinality(KeySet(ret.value)) = n
            /\ {RankText(name) : name \in KeySet(ret.value)} = {IntToStr(i) : i \in 1..n}
            /\ \A name, other \in KeySet(ret.value) :
                  RankText(name) = RankText(other) => name = other
            /\ \A i \in 1..n :
                  \E name \in KeySet(ret.value) :
                      DictGet(ret.value, name) = args.connected_families[i].clusters

\* one family given twice, and two families whose names differ in the rank only
C23_Witness ==
    /\ FamiliesNamed
    /\ Len(args.connected_families) = 2
    /\ \/ args.connected_families[1] = args.connected_families[2]
       \/ /\ args.connected_families[1].compound_class = Class_2N
          /\ args.connected_families[2].compound_class = Type_N
    /\ Cardinality(KeySet(ret.value)) = 2


-----------------------------------------------------------------------------
(* From the edge table to the counts: lines 298, 300 and 313 of the run *)

CountStart == [raised |-> "", connected_components |-> <<>>, named_families |-> <<>>,
               abs_pres_matrix |-> None]

\* line 298
CountConnected ==
    /\ pc = "count_connected"
    /\ \E type_orders \in [1..Len(ConnectedComponents(args.network_df)) -> TypeOrders] :
          LET r == get_connected_from_df(args.network_df, args.cluster_types, type_orders)
          IN  IF r.raised # ""
              THEN pc' = "count_failed" /\ ret' = [ret EXCEPT !.raised = r.raised]
              ELSE pc' = "count_families" /\ ret' = [ret EXCEPT !.connected_components = r.value]
    /\ UNCHANGED args

\* line 300
CountFamilies ==
    /\ pc = "count_families"
    /\ \E member_order \in MemberOrders(Range(Endpoints(args.network_df))) :
          LET r == get_families(ret.connected_components, args.bgc_names, member_order)
          IN  IF r.raised # ""
              THEN pc' = "count_failed" /\ ret' = [ret EXCEPT !.raised = r.raised]
              ELSE pc' = "count_matrix" /\ ret' = [ret EXCEPT !.named_families = r.value]
    /\ UNCHANGED args

\* line 313
CountMatrix ==
    /\ pc = "count_matrix"
    /\ \E leaves \in LeafOrders(Len(ret.named_families)) :
          LET r == get_absence_presence_matrix(ret.named_families, args.clusters_in_genomes,
                                               leaves)
          IN  IF r.raised # ""
              THEN pc' = "count_failed" /\ ret' = [ret EXCEPT !.raised = r.raised]
              ELSE pc' = "count_done" /\ ret' = [ret EXCEPT !.abs_pres_matrix = r.value]
    /\ UNCHANGED args

CountNext == CountConnected \/ CountFamilies \/ CountMatrix

\* the clusters of the edge tables; Id_c is a cluster of a genome that no edge names
CountIds == {Id_x, Id_y, Id_BGC1}

CountEdgeTables == SeqsUpTo({NetRow(a, b, 30) : a \in CountIds, b \in CountIds}, MaxEdges)

Genome_O1 == <<"O", "1">>
Genome_O2 == <<"O", "2">>

CountGenomes ==
    { <<[k |-> Genome_O1, v |-> {Id_x}]>>,
      <<[k |-> Genome_O1, v |-> {Id_x, Id_y}]>>,
      <<[k |-> Genome_O2, v |-> {Id_y}], [k |-> Genome_O1, v |-> {Id_x, Id_c}]>>,
      <<[k |-> Genome_O1, v |-> {Id_c}], [k |-> Genome_O2, v |-> {Id_x, Id_y, Id_c}]>> }

CountInit ==
    /\ pc = "count_connected"
    /\ args \in [network_df : CountEdgeTables, cluster_types : {AllTypes},
                 bgc_names : {<<[k |-> Id_BGC1, v |-> Name_Tm]>>},
                 clusters_in_genomes : CountGenomes]
    /\ ret = CountStart

SpecFamilyCounts == CountInit /\ [][CountNext]_vars

-----------------------------------------------------------------------------
(* Claims about the families and the counts *)

\* the counts of the row i of a table over its first j columns
RECURSIVE CountsUpTo(_, _, _)
CountsUpTo(table, i, j) ==
    IF j = 0 THEN 0 ELSE table.data[j][i] + CountsUpTo(table, i, j - 1)

RowTotal(table, i) == CountsUpTo(table, i, Len(table.columns))

\* C24: the families returned by get_connected_from_df are pairwise disjoint and
\* every query cluster that is an endpoint of the edge table is in exactly one of
\* them; in the matrix built from them the sum of a genome's counts over all
\* families is the number of the genome's clusters that occur in the edge table,
\* and never more than the genome has clusters.
C24_FamiliesPartitionQueries ==
    /\ (pc \in {"count_families", "count_matrix", "count_done"}) =>
          LET families == ret.connected_components
              nodes == Range(Endpoints(args.network_df))
          IN  /\ \A i, j \in 1..Len(families) :
                    i # j => families[i].clusters \cap families[j].clusters = {}
              /\ \A q \in {n \in nodes : IsQuery(n)} :
                    Cardinality({i \in 1..Len(families) : q \in families[i].clusters}) = 1
    /\ (pc = "count_done") =>
          LET table == ret.abs_pres_matrix
              nodes == Range(Endpoints(args.network_df))
          IN  /\ Len(table.index) = Len(args.clusters_in_genomes)
              /\ \A i \in 1..Len(table.index) :
                    LET clusters == DictGet(args.clusters_in_genomes, table.index[i])
                    IN  /\ RowTotal(table, i) = Cardinality(clusters \cap nodes)
                        /\ RowTotal(table, i) <= Cardinality(clusters)

\* a matrix of two families was built; one genome has a cluster in each family and
\* a cluster that no edge names
C24_Witness ==
    /\ pc = "count_done"
    /\ Len(ret.abs_pres_matrix.columns) = 2
    /\ \E i \in 1..Len(ret.abs_pres_matrix.index) :
          /\ RowTotal(ret.abs_pres_matrix, i) = 2
          /\ Cardinality(DictGet(args.clusters_in_genomes, ret.abs_pres_matrix.index[i])) = 3
    /\ Id_BGC1 \in UNION {ret.connected_components[k].clusters :
                             k \in 1..Len(ret.connected_components)}

=============================================================================
